---- MODULE Spec2Model ----
(***************************************************************************)
(* Model of the Joules power plugin of hammer:                             *)
(*   hammer/power/joules/__init__.py  command synthesis (configs_to_cmds,  *)
(*                                    generate_alias, report_power) and    *)
(*                                    parse_power                          *)
(*   hammer/power/joules/parsing.py   flat power table and PPA table       *)
(*                                    parsers                              *)
(*                                                                         *)
(* Text is modelled by what the code does with it.  A command is a         *)
(* sequence of tokens (the words a blank separates); a token is a sequence *)
(* of pieces whose concatenation is the word, so that a path keeps its     *)
(* directory, its name and its dotted suffixes apart.  Render gives the    *)
(* command's string, which is what the stimulus registry stores and        *)
(* compares.                                                               *)
(***************************************************************************)
EXTENDS Integers, Sequences, FiniteSets, TLC

(***************************************************************************)
(* Bounds of the model.                                                    *)
(***************************************************************************)
\* the longest list of user report configs (power.inputs.report_configs)
MaxReports == 2

(***************************************************************************)
(* Python values.                                                          *)
(***************************************************************************)
\* None in a field that holds a string
NoneS == "<None>"
\* None in a field that holds an integer or a TimeValue (in ns)
NoneI == 0 - 1
\* None in output_formats
NoneF == {"<None>"}
\* None in report_stem
NoneStem == [dir |-> "<None>", name |-> ""]

\* truth value of an Optional[int]: None and 0 are false
TruthyInt(v) == v # NoneI /\ v # 0
\* truth value of an Optional[str]: None and "" are false
TruthyStr(v) == v # NoneS /\ v # ""
\* truth value of an Optional[TimeValue]: an object is true
TruthyObj(v) == v # NoneI

\* a word as a token
W(s) == <<s>>
\* the empty string interpolated between two blanks of an f-string
Blank == <<"">>

RECURSIVE Text(_)
\* the text of a token: its pieces concatenated
Text(tok) == IF tok = <<>> THEN "" ELSE Head(tok) \o Text(Tail(tok))

RECURSIVE Render(_)
\* the string of a command: its tokens joined by single blanks
Render(cmd) ==
    IF cmd = <<>> THEN ""
    ELSE IF Len(cmd) = 1 THEN Text(cmd[1])
    ELSE Text(cmd[1]) \o " " \o Render(Tail(cmd))

\* f"{value_in_units('ns')}ns" of a TimeValue of v ns (a float)
NsStr(v) == ToString(v) \o ".0ns"

(***************************************************************************)
(* The environment of one run: paths and names the settings give.          *)
(***************************************************************************)
Cwd == "/cwd/"
RunDir == "/run/"
TbName == "tb"
TbDut == "dut"
\* self.get_clock_ports(): the declared clocks, the first one the default
ClockPorts == <<"clk">>

\* os.path.join(os.getcwd(), waveform_path): an absolute path is kept
abspath_waveform(wf) == (IF wf.dir = "" THEN Cwd ELSE wf.dir) \o wf.name

(***************************************************************************)
(* The stimulus registry.                                                  *)
(***************************************************************************)
\* list.index: the first position (0-based) of x in s
ListIndex(s, x) ==
    (CHOOSE k \in 1..Len(s) : s[k] = x /\ \A j \in 1..(k - 1) : s[j] # x) - 1

InList(s, x) == \E k \in 1..Len(s) : s[k] = x

\* generate_alias taking the length of the registry after the append
generate_alias_late_len(read_stim_cmd, stims) ==
    LET new_stim == ~ InList(stims, read_stim_cmd)
        alias == IF new_stim THEN Len(stims) + 1 ELSE ListIndex(stims, read_stim_cmd)
    IN  [stim_alias |-> "stim" \o ToString(alias),
         new_stim |-> new_stim,
         all_stim_cmds |-> IF new_stim THEN Append(stims, read_stim_cmd) ELSE stims]

\* generate_alias that registers every command as a new stimulus
generate_alias_always_new(read_stim_cmd, stims) ==
    [stim_alias |-> "stim" \o ToString(Len(stims)),
     new_stim |-> TRUE,
     all_stim_cmds |-> Append(stims, read_stim_cmd)]

\* Joules.generate_alias on the registry stims: the alias, whether the
\* command is new, and the registry afterwards
generate_alias(read_stim_cmd, stims) ==
    LET new_stim == ~ InList(stims, read_stim_cmd)
        alias == IF new_stim THEN Len(stims) ELSE ListIndex(stims, read_stim_cmd)
    IN  [stim_alias |-> "stim" \o ToString(alias),
         new_stim |-> new_stim,
         all_stim_cmds |-> IF new_stim THEN Append(stims, read_stim_cmd) ELSE stims]

(***************************************************************************)
(* configs_to_cmds, one report at a time.                                  *)
(***************************************************************************)
\* the PowerReport made for each waveform and SAIF file
AutoReport(wf) ==
    [waveform_path |-> wf, inst |-> NoneS, module |-> NoneS, levels |-> NoneI,
     start_time |-> NoneI, end_time |-> NoneI,
     interval_list |-> NoneS, interval_size |-> NoneI,
     toggle_signal |-> NoneS, num_toggles |-> NoneI, frame_count |-> NoneI,
     power_type |-> NoneS, report_stem |-> NoneStem,
     output_formats |-> {"report"}, tcl_cmd |-> NoneS, tcl_args |-> NoneS]

\* power_report_configs: one report per simulation file, then the user's
PowerReportConfigs(sim_files, user_cfgs) ==
    [k \in 1..Len(sim_files) |-> AutoReport(sim_files[k])] \o user_cfgs

\* time_based_cfgs: which segmentation fields are not None
time_based_cfgs(report) ==
    <<report.interval_size # NoneI, report.interval_list # NoneS,
      report.num_toggles # NoneI, report.frame_count # NoneI>>

\* time_based_analysis = any(time_based_cfgs)
time_based_analysis(report) ==
    \E k \in 1..4 : time_based_cfgs(report)[k]

\* sum(time_based_cfgs) > 1
MoreThanOneSegmentation(report) ==
    Cardinality({k \in 1..4 : time_based_cfgs(report)[k]}) > 1

\* the toggle signal of a -cycles clause
toggle_signal_of(report) ==
    IF report.toggle_signal = NoneS THEN ClockPorts[1] ELSE report.toggle_signal

\* the if/elif chain that appends the segmentation clause
SegClause(report) ==
    IF TruthyObj(report.interval_size)
      THEN <<W("-interval_size"), W(NsStr(report.interval_size))>>
    ELSE IF TruthyStr(report.interval_list)
      THEN <<W("-interval_list"), W(report.interval_list)>>
    ELSE IF TruthyInt(report.num_toggles)
      THEN <<W("-cycles"), W(ToString(report.num_toggles)), W(toggle_signal_of(report))>>
    ELSE IF TruthyInt(report.frame_count)
      THEN <<W("-frame_count"), W(ToString(report.frame_count))>>
    ELSE <<>>

\* read_stim_cmd as rendered before generate_alias is called
read_stim_cmd_of(report) ==
    <<W("read_stimulus"), W("-file"), W(abspath_waveform(report.waveform_path)),
      W("-dut_instance"), W(TbName \o "/" \o TbDut)>>
    \o (IF TruthyObj(report.start_time)
          THEN <<W("-start"), W(NsStr(report.start_time))>> ELSE <<>>)
    \o (IF TruthyObj(report.end_time)
          THEN <<W("-end"), W(NsStr(report.end_time))>> ELSE <<>>)
    \o SegClause(report)

\* the warnings logged while the load command is rendered
SegWarnings(report) ==
    (IF MoreThanOneSegmentation(report)
       THEN <<[level |-> "warning", msg |-> "more_than_one_time_based"]>> ELSE <<>>)
    \o (IF /\ ~ TruthyObj(report.interval_size)
           /\ ~ TruthyStr(report.interval_list)
           /\ TruthyInt(report.num_toggles)
           /\ report.toggle_signal = NoneS
          THEN <<[level |-> "warning", msg |-> "unspecified_toggle_signal"]>> ELSE <<>>)

\* compute_power mode of a new stimulus
mode_of(report) == IF time_based_analysis(report) THEN "time_based" ELSE "average"

\* output_formats_of in which all is a format of its own
output_formats_of_all_alone(report) ==
    IF report.output_formats = NoneF
      THEN (IF report.tcl_args = NoneS THEN {"report"} ELSE {})
      ELSE report.output_formats \ {"all"}

\* output_formats as a set
output_formats_of(report) ==
    IF report.output_formats = NoneF
      THEN (IF report.tcl_args = NoneS THEN {"report"} ELSE {})
      ELSE report.output_formats

\* report_stem resolved: the basename of the waveform by default, put under
\* run_dir/reports unless it starts with "/"
report_stem_of(report) ==
    LET stem == IF report.report_stem = NoneStem
                  THEN [dir |-> "", name |-> report.waveform_path.name]
                  ELSE report.report_stem
    IN  IF stem.dir = "" THEN <<RunDir \o "reports/", stem.name>>
        ELSE <<stem.dir, stem.name>>

inst_str(report) ==
    IF report.inst # NoneS THEN <<W("-inst"), W(report.inst)>> ELSE <<Blank>>
root_str(report) ==
    IF report.inst # NoneS THEN <<W("-root"), W(report.inst)>> ELSE <<Blank>>
module_str(report) ==
    IF report.module # NoneS THEN <<W("-module"), W(report.module)>> ELSE <<Blank>>
levels_str(report) ==
    IF report.levels # NoneI THEN <<W("-levels"), W(ToString(report.levels))>> ELSE <<Blank>>
h_levels_str(report) ==
    IF report.levels # NoneI THEN levels_str(report) ELSE <<W("-levels"), W("all")>>
type_str(report) ==
    <<W("-types"), W(IF report.power_type # NoneS THEN report.power_type ELSE "total")>>
tcl_args_of(report) ==
    <<W(IF report.tcl_args # NoneS THEN report.tcl_args ELSE "")>>

\* the dump_frame_info line appended to cfg['read_stim_cmd']
dump_frame_info_cmd(stim_alias, stem) ==
    <<W("dump_frame_info"), W(stim_alias), stem>>

\* ProfileError without the format "profile" in the two intersections
ProfileError_no_profile(report) ==
    /\ output_formats_of(report) \cap {"plot_profile", "write_profile", "all"} # {}
    /\ ~ time_based_analysis(report)

\* whether a profile format is asked for without time-based analysis: the
\* two "return False" of configs_to_cmds
ProfileError(report) ==
    /\ output_formats_of(report) \cap {"plot_profile", "write_profile", "profile", "all"} # {}
    /\ ~ time_based_analysis(report)

\* cmds: the report commands of one report, in the order they are appended
report_cmds_of(report, a, stem) ==
    LET fmts == output_formats_of(report)
        stims == <<W("-stims"), W(a)>>
    IN  (IF {"report", "all"} \cap fmts # {}
           THEN << <<W("report_power")>> \o stims \o inst_str(report) \o module_str(report)
                     \o levels_str(report) \o <<W("-unit"), W("mW")>> \o tcl_args_of(report)
                     \o <<W("-out"), stem \o <<".power", ".rpt">> >>,
                   <<W("report_power")>> \o stims \o inst_str(report) \o module_str(report)
                     \o levels_str(report) \o <<W("-by_hierarchy")>> \o h_levels_str(report)
                     \o <<W("-unit"), W("mW")>> \o tcl_args_of(report)
                     \o <<W("-out"), stem \o <<".hier", ".power", ".rpt">> >> >>
           ELSE <<>>)
     \o (IF {"activity", "all"} \cap fmts # {}
           THEN << <<W("report_activity")>> \o stims \o inst_str(report) \o module_str(report)
                     \o levels_str(report) \o tcl_args_of(report)
                     \o <<W("-out"), stem \o <<".activity", ".rpt">> >>,
                   <<W("report_activity")>> \o stims \o <<W("-by_hierarchy")>>
                     \o levels_str(report) \o tcl_args_of(report)
                     \o <<W("-out"), stem \o <<".hier", ".activity", ".rpt">> >> >>
           ELSE <<>>)
     \o (IF {"ppa", "all"} \cap fmts # {}
           THEN << <<W("report_ppa")>> \o root_str(report) \o module_str(report)
                     \o tcl_args_of(report) \o <<W(">"), stem \o <<".ppa", ".rpt">> >> >>
           ELSE <<>>)
     \o (IF {"area", "all"} \cap fmts # {}
           THEN << <<W("report_area"), W(">"), stem \o <<".area", ".rpt">> >> >>
           ELSE <<>>)
     \o (IF {"plot_profile", "profile", "all"} \cap fmts # {}
           THEN << <<W("plot_power_profile")>> \o stims \o inst_str(report)
                     \o module_str(report) \o levels_str(report)
                     \o <<W("-by_category"), W("{total}")>> \o type_str(report)
                     \o <<W("-unit"), W("mW"), W("-format"), W("png")>> \o tcl_args_of(report)
                     \o <<W("-out"), stem \o <<".profile", ".png">> >> >>
           ELSE <<>>)
     \o (IF {"write_profile", "profile", "all"} \cap fmts # {}
           THEN << <<W("write_power_profile")>> \o stims \o root_str(report)
                     \o levels_str(report)
                     \o <<W("-unit"), W("mW"), W("-format"), W("fsdb")>> \o tcl_args_of(report)
                     \o <<W("-out"), stem \o <<".profile">> >> >>
           ELSE <<>>)
     \o (IF report.tcl_cmd # NoneS
           THEN << <<W(report.tcl_cmd)>> \o stims \o tcl_args_of(report) >>
           ELSE <<>>)

\* the value of a key a cfg does not have
NoCmd == <<>>

\* cfg['read_stim_cmd'] with the dump_frame_info line only for a new stimulus
cfg_read_stim_cmd_dump_if_new(read_stim_cmd, ga, stem) ==
    IF ga.new_stim
      THEN <<read_stim_cmd \o <<W("-alias"), W(ga.stim_alias), W("-append")>>,
             dump_frame_info_cmd(ga.stim_alias, stem)>>
      ELSE <<<<>>>>

\* cfg['read_stim_cmd']: the load command of a new stimulus, else the empty
\* string, then a line break and the dump_frame_info command
cfg_read_stim_cmd(read_stim_cmd, ga, stem) ==
    <<IF ga.new_stim
        THEN read_stim_cmd \o <<W("-alias"), W(ga.stim_alias), W("-append")>>
        ELSE <<>>,
      dump_frame_info_cmd(ga.stim_alias, stem)>>

\* one pass of the loop of configs_to_cmds over report, with the registry
\* stims: the cfg built, the registry afterwards, what is logged, and whether
\* the pass returned False
configs_to_cmds_iter(report, stims) ==
    LET read_stim_cmd == read_stim_cmd_of(report)
        ga == generate_alias(Render(read_stim_cmd), stims)
        stem == report_stem_of(report)
    IN  [failed |-> ProfileError(report),
         stim_alias |-> ga.stim_alias,
         new_stim |-> ga.new_stim,
         all_stim_cmds |-> ga.all_stim_cmds,
         logs |-> SegWarnings(report)
                  \o (IF ProfileError(report)
                        THEN <<[level |-> "error", msg |-> "must_specify_time_based"]>>
                        ELSE <<>>),
         cfg |-> [read_stim_cmd |-> cfg_read_stim_cmd(read_stim_cmd, ga, stem),
                  compute_power_cmd |->
                      IF ga.new_stim
                        THEN <<W("compute_power"), W("-mode"), W(mode_of(report)),
                               W("-stim"), W(ga.stim_alias), W("-append")>>
                        ELSE NoCmd,
                  report_cmds |-> report_cmds_of(report, ga.stim_alias, stem)]]

(***************************************************************************)
(* The inputs of a run.                                                    *)
(***************************************************************************)
WaveA == [dir |-> "", name |-> "a.vcd"]
WaveAAbs == [dir |-> "/cwd/", name |-> "a.vcd"]
WaveB == [dir |-> "", name |-> "b.vcd"]

WithSeg(r, seg) ==
    [r EXCEPT !.interval_size = seg[1], !.interval_list = seg[2],
              !.num_toggles = seg[3], !.frame_count = seg[4]]

\* values of <<interval_size, interval_list, num_toggles, frame_count>> asked
\* with a plain report: none, one, several, and fields set to 0 or ""
SegChoices ==
    { <<NoneI, NoneS, NoneI, NoneI>>,
      <<10, NoneS, NoneI, NoneI>>,
      <<NoneI, NoneS, 3, NoneI>>,
      <<10, NoneS, 3, NoneI>>,
      <<10, "il", 3, 2>>,
      <<NoneI, "il", 3, NoneI>>,
      <<NoneI, NoneS, 3, 2>>,
      <<NoneI, NoneS, 0, 2>>,
      <<NoneI, "", 3, NoneI>> }

\* the same, asked with profile output
ProfileSegChoices ==
    { <<NoneI, NoneS, NoneI, NoneI>>,
      <<10, NoneS, NoneI, NoneI>>,
      <<NoneI, NoneS, NoneI, 2>>,
      <<NoneI, NoneS, 0, NoneI>> }

\* the user's report configs the model draws from
UserReports ==
    { WithSeg(AutoReport(WaveA), seg) : seg \in SegChoices }
    \cup { [WithSeg(AutoReport(WaveA), seg) EXCEPT !.output_formats = {"profile"}] :
               seg \in ProfileSegChoices }
    \cup { [AutoReport(WaveAAbs) EXCEPT !.output_formats = {"ppa"},
                                        !.report_stem = [dir |-> "", name |-> "r3"]],
           [AutoReport(WaveA) EXCEPT !.start_time = 5, !.end_time = 9,
                                     !.output_formats = {"area"}],
           [AutoReport(WaveA) EXCEPT !.num_toggles = 3, !.toggle_signal = "sig",
                                     !.report_stem = [dir |-> "", name |-> "r1"],
                                     !.output_formats = {"write_profile", "activity"}],
           [AutoReport(WaveA) EXCEPT !.inst = "u0", !.module = "m", !.levels = 2,
                                     !.power_type = "leakage",
                                     !.report_stem = [dir |-> "/out/", name |-> "r2"],
                                     !.interval_size = 10,
                                     !.output_formats = {"all"}],
           [AutoReport(WaveA) EXCEPT !.output_formats = {"plot_profile", "report"}],
           [AutoReport(WaveB) EXCEPT !.output_formats = NoneF, !.tcl_cmd = "report_x",
                                     !.tcl_args = "-v"],
           [AutoReport(WaveB) EXCEPT !.output_formats = NoneF] }

\* the lists of at most n elements of S
SeqsUpTo(S, n) == UNION { [1..k -> S] : k \in 0..n }

\* self.waveforms + saifs
SimFileLists == { <<>>, <<WaveA>> }

\* the line do_pre_steps writes when the flow is resumed at report_power
read_db_cmd == <<W("read_db"), W("pre_report_power")>>
\* the dump_frame_info procedure report_power defines
proc_cmd == <<W("proc"), W("dump_frame_info"), W("{stim_alias report_stem}"), W("{...}")>>

(***************************************************************************)
(* The state of one Joules session.                                        *)
(***************************************************************************)
VARIABLES
    sim_files,              \* self.waveforms + saifs
    report_configs,         \* self.get_power_report_configs()
    all_stim_cmds,          \* the registry: the load commands already run
    output,                 \* self.output: the lines of the script
    log,                    \* self.logger: what was logged, in order
    pc,                     \* where the session is
    caller,                 \* the method that called configs_to_cmds
    i,                      \* configs_to_cmds: the next report of the loop
    all_power_report_cfgs,  \* configs_to_cmds: the cfgs built so far
    power_cfgs,             \* what configs_to_cmds returned
    last_alias,             \* what generate_alias returned last
    report_power_result,    \* what report_power returned
    disk,                   \* the report files of the run directory, by path
    next_cmd,               \* parse_power: the next report command of the loop
    parsed,                 \* the exports parse_power wrote
    parse_power_result,     \* what parse_power returned
    lines,                  \* parsing.py: the lines of the report handed to a parser
    ln,                     \* parsing.py: the next line of the loop
    rows,                   \* parsing.py: the rows parsed so far
    subtotal,               \* parse_table: the Subtotal record
    percentage,             \* parse_table: the Percentage record
    parser_pc,              \* parsing.py: where the parser is
    args,                   \* main: the parsed command line
    main_pc,                \* main: where it is
    out_path,               \* main: the path the output goes to
    called,                 \* main: the parsers called, in order
    written,                \* main: the file written
    meta                    \* parse_hier_power_table: the metadata

vars == <<sim_files, report_configs, all_stim_cmds, output, log, pc, caller, i,
          all_power_report_cfgs, power_cfgs, last_alias, report_power_result,
          disk, next_cmd, parsed, parse_power_result,
          lines, ln, rows, subtotal, percentage, parser_pc,
          args, main_pc, out_path, called, written, meta>>

\* the state of main
main_vars == <<args, main_pc, out_path, called, written, meta>>

\* the state of parsing.py
table_vars == <<lines, ln, rows, subtotal, percentage, parser_pc,
                args, main_pc, out_path, called, written, meta>>

\* the state of the Joules session
joules_vars == <<sim_files, report_configs, all_stim_cmds, output, log, pc, caller, i,
                 all_power_report_cfgs, power_cfgs, last_alias, report_power_result,
                 disk, next_cmd, parsed, parse_power_result>>

\* a str that holds a path: whether it starts with "/", and what "/" separates
PathStr(abs, parts) == [kind |-> "str", abs |-> abs, parts |-> parts]
\* None where a str can be
NoneStr == [kind |-> "None", abs |-> FALSE, parts |-> <<>>]
\* no file written
NotWritten == [path |-> [abs |-> FALSE, parts |-> <<>>], format |-> "none", of |-> "none"]
\* meta of parse_hier_power_table before a line matched: every key None
NoMeta == [power_unit |-> <<>>, area_unit |-> <<>>, pdb_frame |-> <<>>]

\* main does not run
NoMain ==
    /\ args = [source |-> <<>>, json |-> FALSE, out |-> NoneStr]
    /\ main_pc = "idle"
    /\ out_path = [abs |-> FALSE, parts |-> <<>>]
    /\ called = <<>>
    /\ written = NotWritten
    /\ meta = NoMeta

\* no table parser runs
NoParser ==
    /\ NoMain
    /\ lines = <<>>
    /\ ln = 1
    /\ rows = <<>>
    /\ subtotal = [is_none |-> TRUE]
    /\ percentage = [is_none |-> TRUE]
    /\ parser_pc = "idle"

\* what command synthesis leaves alone
parse_vars == <<disk, next_cmd, parsed, parse_power_result>>

power_report_configs == PowerReportConfigs(sim_files, report_configs)

\* configs_to_cmds has not returned
NotReturned == [returned |-> FALSE, is_list |-> FALSE, list |-> <<>>]
\* no call of generate_alias yet
NoAlias == [stim_alias |-> "", new_stim |-> FALSE, read_stim_cmd |-> ""]

Init ==
    /\ NoParser
    /\ sim_files \in SimFileLists
    /\ report_configs \in SeqsUpTo(UserReports, MaxReports)
    /\ all_stim_cmds = <<>>
    /\ output \in {<<>>, <<read_db_cmd>>}
    /\ log = <<>>
    /\ pc = "idle"
    /\ caller = "none"
    /\ i = 1
    /\ all_power_report_cfgs = <<>>
    /\ power_cfgs = NotReturned
    /\ last_alias = NoAlias
    /\ report_power_result = "none"
    /\ disk = <<>>
    /\ next_cmd = 1
    /\ parsed = {}
    /\ parse_power_result = "none"

\* report_power is entered and calls configs_to_cmds; it is a step of the
\* flow, and parse_power is called from run_joules after the steps
ReportPowerCall ==
    /\ UNCHANGED table_vars
    /\ pc = "idle"
    /\ report_power_result = "none"
    /\ parse_power_result = "none"
    /\ pc' = "configs"
    /\ caller' = "report_power"
    /\ i' = 1
    /\ all_power_report_cfgs' = <<>>
    /\ power_cfgs' = NotReturned
    /\ UNCHANGED <<sim_files, report_configs, all_stim_cmds, output, log,
                   last_alias, report_power_result>>
    /\ UNCHANGED parse_vars

\* one pass of the loop of configs_to_cmds: the cfg of a report is appended,
\* or False is returned for the whole call
ConfigsToCmdsIter ==
    /\ UNCHANGED table_vars
    /\ pc = "configs"
    /\ i <= Len(power_report_configs)
    /\ LET r == configs_to_cmds_iter(power_report_configs[i], all_stim_cmds)
       IN  /\ all_stim_cmds' = r.all_stim_cmds
           /\ log' = log \o r.logs
           /\ last_alias' = [stim_alias |-> r.stim_alias, new_stim |-> r.new_stim,
                             read_stim_cmd |-> Render(read_stim_cmd_of(power_report_configs[i]))]
           /\ IF r.failed
                THEN /\ power_cfgs' = [returned |-> TRUE, is_list |-> FALSE, list |-> <<>>]
                     /\ all_power_report_cfgs' = <<>>
                     /\ pc' = "returned"
                     /\ i' = i
                ELSE /\ all_power_report_cfgs' = Append(all_power_report_cfgs, r.cfg)
                     /\ i' = i + 1
                     /\ UNCHANGED <<power_cfgs, pc>>
    /\ UNCHANGED <<sim_files, report_configs, output, caller, report_power_result>>
    /\ UNCHANGED parse_vars

\* the loop is over: configs_to_cmds returns all_power_report_cfgs
ConfigsToCmdsReturn ==
    /\ UNCHANGED table_vars
    /\ pc = "configs"
    /\ i > Len(power_report_configs)
    /\ power_cfgs' = [returned |-> TRUE, is_list |-> TRUE, list |-> all_power_report_cfgs]
    /\ all_power_report_cfgs' = <<>>
    /\ pc' = "returned"
    /\ UNCHANGED <<sim_files, report_configs, all_stim_cmds, output, log, caller, i,
                   last_alias, report_power_result>>
    /\ UNCHANGED parse_vars

RECURSIVE CfgLines_reports_first(_)
\* CfgLines with the report commands of a cfg before its compute_power command
CfgLines_reports_first(cfgs) ==
    IF cfgs = <<>> THEN <<>>
    ELSE LET cfg == Head(cfgs)
         IN  cfg.read_stim_cmd
             \o cfg.report_cmds
             \o (IF cfg.compute_power_cmd # NoCmd THEN <<cfg.compute_power_cmd>> ELSE <<>>)
             \o CfgLines_reports_first(Tail(cfgs))

RECURSIVE CfgLines(_)
\* the lines report_power appends for a list of cfgs
CfgLines(cfgs) ==
    IF cfgs = <<>> THEN <<>>
    ELSE LET cfg == Head(cfgs)
         IN  cfg.read_stim_cmd
             \o (IF cfg.compute_power_cmd # NoCmd THEN <<cfg.compute_power_cmd>> ELSE <<>>)
             \o cfg.report_cmds
             \o CfgLines(Tail(cfgs))

\* the rest of report_power: read_db unless already written, the
\* dump_frame_info procedure, then the commands of every cfg; iterating over
\* False raises TypeError
ReportPowerEmit ==
    /\ UNCHANGED table_vars
    /\ pc = "returned"
    /\ caller = "report_power"
    /\ LET head == (IF InList(output, read_db_cmd) THEN <<>> ELSE <<read_db_cmd>>)
                   \o <<proc_cmd>>
       IN  IF power_cfgs.is_list
             THEN /\ output' = output \o head \o CfgLines(power_cfgs.list)
                  /\ report_power_result' = "True"
             ELSE /\ output' = output \o head
                  /\ report_power_result' = "TypeError"
    /\ pc' = "idle"
    /\ caller' = "none"
    /\ UNCHANGED <<sim_files, report_configs, all_stim_cmds, log, i,
                   all_power_report_cfgs, power_cfgs, last_alias>>
    /\ UNCHANGED parse_vars

Next ==
    \/ ReportPowerCall
    \/ ConfigsToCmdsIter
    \/ ConfigsToCmdsReturn
    \/ ReportPowerEmit

Spec == Init /\ [][Next]_vars

(***************************************************************************)
(* parse_power.                                                            *)
(***************************************************************************)
\* ' w ' in the string of cmd: a token w with a token before and after it
HasToken(cmd, w) == \E k \in 2..(Len(cmd) - 1) : cmd[k] = W(w)

\* cmd.split(' w ')[-1]: what follows the last ' w ', or all of cmd
AfterLast(cmd, w) ==
    IF HasToken(cmd, w)
      THEN LET k == CHOOSE n \in 2..(Len(cmd) - 1) :
                        cmd[n] = W(w) /\ \A m \in (n + 1)..(Len(cmd) - 1) : cmd[m] # W(w)
           IN  SubSeq(cmd, k + 1, Len(cmd))
      ELSE cmd

\* the directories that start with "/"
AbsDirs == {RunDir \o "reports/", "/out/", Cwd}

\* fp_in before the profile suffix: the path after the output token, put
\* under run_dir unless absolute
fp_in_path(cmd) ==
    LET rest == AfterLast(AfterLast(cmd, "-out"), ">")
        fp == IF Len(rest) = 1 THEN rest[1] ELSE <<"", Render(rest)>>
    IN  IF fp[1] \in AbsDirs THEN fp ELSE <<RunDir \o fp[1]>> \o Tail(fp)

\* '.profile' in fp_in.name
is_profile(fp) == \E k \in 2..Len(fp) : fp[k] = ".profile"

\* the file parse_power looks for
fp_in_of(cmd) ==
    LET fp == fp_in_path(cmd)
    IN  IF is_profile(fp) THEN Append(fp, ".data") ELSE fp

\* fp_in.parent/"parsed"/(fp_in.name+'.csv.gz')
fp_out_of(fp) == <<fp[1] \o "parsed/">> \o Tail(fp) \o <<".csv.gz">>

\* what a report file can be: absent; a file the profile parser turns into
\* a frame that is exported; a file on which parsing or exporting raises
FileKinds == {"missing", "good", "malformed"}

\* the file of fp on a disk d
KindOn(d, fp) == IF fp \in DOMAIN d THEN d[fp] ELSE "missing"

\* parse_power_iter without the try: the exception leaves parse_power
parse_power_iter_no_try(cmd, d) ==
    IF ~ HasToken(cmd, "-out") /\ ~ HasToken(cmd, ">")
      THEN [logs |-> <<>>, exports |-> {}, ends |-> "continue"]
    ELSE LET fp_in == fp_in_of(cmd)
             profile == is_profile(fp_in_path(cmd))
         IN  IF KindOn(d, fp_in) = "missing"
               THEN [logs |-> <<[level |-> "warning", msg |-> "output_file_does_not_exist",
                                 file |-> fp_in]>>,
                     exports |-> {}, ends |-> "continue"]
             ELSE IF ~ profile
               THEN [logs |-> <<[level |-> "warning", msg |-> "no_method_to_parse",
                                 file |-> fp_in]>>,
                     exports |-> {}, ends |-> "continue"]
             ELSE IF KindOn(d, fp_in) = "good"
               THEN [logs |-> <<[level |-> "info", msg |-> "parsed", file |-> fp_in]>>,
                     exports |-> {[fp_in |-> fp_in, fp_out |-> fp_out_of(fp_in)]},
                     ends |-> "continue"]
             ELSE [logs |-> <<>>, exports |-> {}, ends |-> "Exception"]

\* one pass of the inner loop of parse_power over cmd with the files d:
\* what is logged, what is exported, and how the pass ends
parse_power_iter(cmd, d) ==
    IF ~ HasToken(cmd, "-out") /\ ~ HasToken(cmd, ">")
      THEN [logs |-> <<>>, exports |-> {}, ends |-> "continue"]
    ELSE LET fp_in == fp_in_of(cmd)
             profile == is_profile(fp_in_path(cmd))
         IN  IF KindOn(d, fp_in) = "missing"
               THEN [logs |-> <<[level |-> "warning", msg |-> "output_file_does_not_exist",
                                 file |-> fp_in]>>,
                     exports |-> {}, ends |-> "continue"]
             ELSE IF ~ profile
               THEN [logs |-> <<[level |-> "warning", msg |-> "no_method_to_parse",
                                 file |-> fp_in]>>,
                     exports |-> {}, ends |-> "continue"]
             ELSE IF KindOn(d, fp_in) = "good"
               THEN [logs |-> <<[level |-> "info", msg |-> "parsed", file |-> fp_in]>>,
                     exports |-> {[fp_in |-> fp_in, fp_out |-> fp_out_of(fp_in)]},
                     ends |-> "continue"]
             ELSE [logs |-> <<[level |-> "warning", msg |-> "error_with_function",
                               file |-> fp_in],
                              [level |-> "warning", msg |-> "exception_text",
                               file |-> fp_in]>>,
                   exports |-> {}, ends |-> "continue"]

RECURSIVE AllReportCmds(_)
\* the report commands of a list of cfgs, in the order of the two loops
AllReportCmds(cfgs) ==
    IF cfgs = <<>> THEN <<>> ELSE Head(cfgs).report_cmds \o AllReportCmds(Tail(cfgs))

\* the report commands parse_power goes through
parse_queue == AllReportCmds(power_cfgs.list)

\* parse_power is entered and calls configs_to_cmds
ParsePowerCall ==
    /\ UNCHANGED table_vars
    /\ pc = "idle"
    /\ parse_power_result = "none"
    /\ pc' = "configs"
    /\ caller' = "parse_power"
    /\ i' = 1
    /\ all_power_report_cfgs' = <<>>
    /\ power_cfgs' = NotReturned
    /\ UNCHANGED <<sim_files, report_configs, all_stim_cmds, output, log,
                   last_alias, report_power_result>>
    /\ UNCHANGED parse_vars

\* configs_to_cmds returned to parse_power: the loops start, or iterating
\* over False raises TypeError
ParsePowerBegin ==
    /\ UNCHANGED table_vars
    /\ pc = "returned"
    /\ caller = "parse_power"
    /\ IF power_cfgs.is_list
         THEN /\ pc' = "parse"
              /\ next_cmd' = 1
              /\ UNCHANGED <<parse_power_result, caller>>
         ELSE /\ pc' = "idle"
              /\ caller' = "none"
              /\ parse_power_result' = "TypeError"
              /\ UNCHANGED next_cmd
    /\ UNCHANGED <<sim_files, report_configs, all_stim_cmds, output, log, i,
                   all_power_report_cfgs, power_cfgs, last_alias, report_power_result,
                   disk, parsed>>

\* one pass of the inner loop of parse_power
ParsePowerCmd ==
    /\ UNCHANGED table_vars
    /\ pc = "parse"
    /\ next_cmd <= Len(parse_queue)
    /\ LET r == parse_power_iter(parse_queue[next_cmd], disk)
       IN  /\ log' = log \o r.logs
           /\ parsed' = parsed \cup r.exports
           /\ IF r.ends = "continue"
                THEN /\ next_cmd' = next_cmd + 1
                     /\ UNCHANGED <<pc, caller, parse_power_result>>
                ELSE /\ pc' = "idle"
                     /\ caller' = "none"
                     /\ parse_power_result' = r.ends
                     /\ UNCHANGED next_cmd
    /\ UNCHANGED <<sim_files, report_configs, all_stim_cmds, output, i,
                   all_power_report_cfgs, power_cfgs, last_alias, report_power_result,
                   disk>>

\* the loops are over: parse_power returns True
ParsePowerReturn ==
    /\ UNCHANGED table_vars
    /\ pc = "parse"
    /\ next_cmd > Len(parse_queue)
    /\ pc' = "idle"
    /\ caller' = "none"
    /\ parse_power_result' = "True"
    /\ UNCHANGED <<sim_files, report_configs, all_stim_cmds, output, log, i,
                   all_power_report_cfgs, power_cfgs, last_alias, report_power_result,
                   disk, next_cmd, parsed>>

\* the report configs of the sessions in which the reports are parsed
ParseReports ==
    { [AutoReport(WaveA) EXCEPT !.interval_size = 10, !.output_formats = {"write_profile"}],
      [AutoReport(WaveA) EXCEPT !.interval_size = 10, !.output_formats = {"profile"},
                                !.report_stem = [dir |-> "", name |-> "r1"]],
      [AutoReport(WaveB) EXCEPT !.num_toggles = 3, !.output_formats = {"plot_profile"},
                                !.report_stem = [dir |-> "/out/", name |-> "r2"]],
      AutoReport(WaveA),
      [AutoReport(WaveA) EXCEPT !.output_formats = {"profile"}],
      [AutoReport(WaveB) EXCEPT !.output_formats = NoneF, !.tcl_cmd = "report_x",
                                !.tcl_args = "-v"] }

RECURSIVE OutFilesOf(_)
\* the files the report commands of a list of report configs name
OutFilesOf(cfgs) ==
    IF cfgs = <<>> THEN {}
    ELSE LET cmds == report_cmds_of(Head(cfgs), "stim0", report_stem_of(Head(cfgs)))
         IN  { fp_in_of(cmds[k]) :
                   k \in {n \in 1..Len(cmds) :
                              HasToken(cmds[n], "-out") \/ HasToken(cmds[n], ">")} }
             \cup OutFilesOf(Tail(cfgs))

\* the kinds a file of that name can be of: only a profile dump is read
KindsOf(fp) == IF is_profile(fp) THEN FileKinds ELSE {"missing", "good"}

\* the disks a run can leave
Disks(cfgs) ==
    { d \in [OutFilesOf(cfgs) -> FileKinds] : \A fp \in DOMAIN d : d[fp] \in KindsOf(fp) }

InitParse ==
    /\ NoParser
    /\ sim_files = <<>>
    /\ report_configs \in SeqsUpTo(ParseReports, MaxReports)
    /\ all_stim_cmds = <<>>
    /\ output = <<>>
    /\ log = <<>>
    /\ pc = "idle"
    /\ caller = "none"
    /\ i = 1
    /\ all_power_report_cfgs = <<>>
    /\ power_cfgs = NotReturned
    /\ last_alias = NoAlias
    /\ report_power_result = "none"
    /\ disk \in Disks(report_configs)
    /\ next_cmd = 1
    /\ parsed = {}
    /\ parse_power_result = "none"

NextParse ==
    \/ ReportPowerCall
    \/ ConfigsToCmdsIter
    \/ ConfigsToCmdsReturn
    \/ ReportPowerEmit
    \/ ParsePowerCall
    \/ ParsePowerBegin
    \/ ParsePowerCmd
    \/ ParsePowerReturn

SpecParse == InitParse /\ [][NextParse]_vars

(***************************************************************************)
(* Reading the script and the batch.                                       *)
(***************************************************************************)
IsLoadCmd(line) == line # <<>> /\ line[1] = W("read_stimulus")
IsComputeCmd(line) == line # <<>> /\ line[1] = W("compute_power")
IsDumpCmd(line) == line # <<>> /\ line[1] = W("dump_frame_info")
IsProfileCmd(line) ==
    line # <<>> /\ line[1] \in {W("plot_power_profile"), W("write_power_profile")}

\* the alias a load, compute or dump command carries
LoadAlias(line) == Text(line[Len(line) - 1])
ComputeAlias(line) == Text(line[5])
ComputeMode(line) == Text(line[3])
DumpAlias(line) == Text(line[2])

\* the positions of the script that hold a load (compute) command of alias a
LoadsOf(a) == {k \in 1..Len(output) : IsLoadCmd(output[k]) /\ LoadAlias(output[k]) = a}
ComputesOf(a) ==
    {k \in 1..Len(output) : IsComputeCmd(output[k]) /\ ComputeAlias(output[k]) = a}

Reports == 1..Len(power_report_configs)
\* the rendered load command string of report k
LoadString(k) == Render(read_stim_cmd_of(power_report_configs[k]))
\* report k asks what configs_to_cmds refuses
Refused(k) == ProfileError(power_report_configs[k])
\* the alias the registry holds for report k's load command
RegisteredAlias(k) == "stim" \o ToString(ListIndex(all_stim_cmds, LoadString(k)))
\* report_power is over
ReportPowerDone == report_power_result # "none"

\* the segmentation flags, in the priority order of the fields
SegFlags == <<"-interval_size", "-interval_list", "-cycles", "-frame_count">>
\* the first field of the priority order that is set (not None)
FirstSet(report) ==
    CHOOSE k \in 1..4 :
        time_based_cfgs(report)[k] /\ \A j \in 1..(k - 1) : ~ time_based_cfgs(report)[j]
HasFlag(cmd, flag) == \E k \in 1..Len(cmd) : cmd[k] = W(flag)

(***************************************************************************)
(* C1: in one session, two reports of a batch whose rendered load command  *)
(* strings are identical get the same alias, and the script holds exactly  *)
(* one load command and exactly one compute_power command of that alias.   *)
(***************************************************************************)
C1_DedupOnePair ==
    ReportPowerDone =>
        \A j, k \in Reports :
            (j < k /\ ~ Refused(j) /\ ~ Refused(k) /\ LoadString(j) = LoadString(k)) =>
                /\ InList(all_stim_cmds, LoadString(j))
                /\ Cardinality(LoadsOf(RegisteredAlias(j))) = 1
                /\ Cardinality(ComputesOf(RegisteredAlias(j))) = 1

\* the same, in the batches in which configs_to_cmds refuses no report
DedupOnePairUnlessRefused ==
    (ReportPowerDone /\ \A k \in Reports : ~ Refused(k)) =>
        \A j, k \in Reports :
            (j < k /\ LoadString(j) = LoadString(k)) =>
                /\ InList(all_stim_cmds, LoadString(j))
                /\ Cardinality(LoadsOf(RegisteredAlias(j))) = 1
                /\ Cardinality(ComputesOf(RegisteredAlias(j))) = 1

(***************************************************************************)
(* C2: aliases follow first registration: the registry only grows by       *)
(* appending and never holds a command twice; a call of generate_alias     *)
(* with a new command appends it and returns the alias of its position     *)
(* (the k-th command gets stim(k-1)) with new_stim true; a call with a     *)
(* registered command returns the alias of its position with new_stim      *)
(* false and leaves the registry as it is.                                 *)
(***************************************************************************)
IsPrefix(s, t) == Len(s) <= Len(t) /\ \A k \in 1..Len(s) : s[k] = t[k]
NoDuplicates(s) == \A j, k \in 1..Len(s) : j # k => s[j] # s[k]

C3_SegmentationPriority ==
    \A k \in Reports :
        (InList(all_stim_cmds, LoadString(k)) /\ MoreThanOneSegmentation(power_report_configs[k])) =>
            LET r == power_report_configs[k] IN
            /\ \A f \in 1..4 : HasFlag(read_stim_cmd_of(r), SegFlags[f]) <=> f = FirstSet(r)
            /\ ~ Refused(k)

(***************************************************************************)
(* C4: when a report of the batch asks for profile output without a        *)
(* segmentation field, it fails and report_power reports the failure, but  *)
(* every other report of the batch is processed and its load, compute,     *)
(* dump and report commands are in the script.                             *)
(***************************************************************************)
InScript(line) == InList(output, line)

C4_ErrorIsolation ==
    (ReportPowerDone /\ \E k \in Reports : Refused(k)) =>
        /\ report_power_result # "True"
        /\ \A k \in Reports :
              ~ Refused(k) =>
                  /\ InList(all_stim_cmds, LoadString(k))
                  /\ Cardinality(LoadsOf(RegisteredAlias(k))) = 1
                  /\ Cardinality(ComputesOf(RegisteredAlias(k))) = 1
                  /\ InScript(dump_frame_info_cmd(RegisteredAlias(k),
                                                  report_stem_of(power_report_configs[k])))
                  /\ LET cmds == report_cmds_of(power_report_configs[k], RegisteredAlias(k),
                                                report_stem_of(power_report_configs[k]))
                     IN  \A c \in 1..Len(cmds) : InScript(cmds[c])

(***************************************************************************)
(* C5: a report whose output formats are {profile} and that has no         *)
(* segmentation field set is never given a cfg and no plot_power_profile   *)
(* or write_power_profile command reaches the script; once the loop has    *)
(* come to it, an error is logged and configs_to_cmds has returned False,  *)
(* and report_power does not return True.                                  *)
(***************************************************************************)
ProfileOnlyNoSeg(report) ==
    /\ report.output_formats = {"profile"}
    /\ report.interval_size = NoneI /\ report.interval_list = NoneS
    /\ report.num_toggles = NoneI /\ report.frame_count = NoneI

C5_ProfilePrecondition ==
    \A k \in Reports :
        ProfileOnlyNoSeg(power_report_configs[k]) =>
            /\ \A n \in 1..Len(output) : ~ IsProfileCmd(output[n])
            /\ Len(all_power_report_cfgs) < k
            /\ ~ power_cfgs.is_list
            /\ report_power_result # "True"
            /\ (i = k /\ (pc = "returned" \/ (pc = "idle" /\ ReportPowerDone))) =>
                  /\ power_cfgs.returned
                  /\ log # <<>>
                  /\ log[Len(log)] = [level |-> "error", msg |-> "must_specify_time_based"]
                  /\ (ReportPowerDone => report_power_result = "TypeError")

\* report_power is over after the loop came to such a report, the second of
\* the batch
C5_Witness ==
    /\ ReportPowerDone
    /\ i = 2
    /\ Len(power_report_configs) >= 2
    /\ ProfileOnlyNoSeg(power_report_configs[2])
    /\ ~ Refused(1)

(***************************************************************************)
(* C9: when the load command of a report is new to the registry, exactly   *)
(* one load command and one compute_power command of the new alias are     *)
(* emitted, the mode being time_based if a segmentation field of the       *)
(* report is set and average otherwise; when it is registered already,     *)
(* the report emits neither.                                               *)
(***************************************************************************)
\* report k is the first of the batch with its load command
FirstWithLoad(k) == \A j \in 1..(k - 1) : LoadString(j) # LoadString(k)

C9_ModeAndSuppression ==
    ReportPowerDone =>
        \A k \in Reports :
            (~ Refused(k) /\ FirstWithLoad(k)) =>
                /\ InList(all_stim_cmds, LoadString(k))
                /\ Cardinality(LoadsOf(RegisteredAlias(k))) = 1
                /\ \E n \in 1..Len(output) :
                      /\ IsComputeCmd(output[n])
                      /\ ComputeAlias(output[n]) = RegisteredAlias(k)
                      /\ ComputeMode(output[n]) =
                            (IF time_based_analysis(power_report_configs[k])
                               THEN "time_based" ELSE "average")
                /\ Cardinality(ComputesOf(RegisteredAlias(k))) = 1

\* the same, in the batches in which configs_to_cmds refuses no report
ModeAndSuppressionUnlessRefused ==
    (ReportPowerDone /\ \A k \in Reports : ~ Refused(k)) => C9_ModeAndSuppression

(***************************************************************************)
(* C10: every report that is synthesized successfully, that is, for which  *)
(* configs_to_cmds returned a cfg, emits exactly one dump_frame_info       *)
(* command with its alias and its resolved report stem, whether its        *)
(* stimulus is new or not; a report that reuses a stimulus emits the dump  *)
(* command and no load or compute command.                                 *)
(***************************************************************************)
\* the dump command of report k
DumpOf(k) == dump_frame_info_cmd(RegisteredAlias(k), report_stem_of(power_report_configs[k]))

Logged(level, msg, fp) ==
    \E n \in 1..Len(log) : log[n] = [level |-> level, msg |-> msg, file |-> fp]
HasOutput(cmd) == HasToken(cmd, "-out") \/ HasToken(cmd, ">")

C8_PartialFailureIsolation ==
    /\ (parse_power_result # "none" /\ power_cfgs.is_list) =>
          /\ parse_power_result = "True"
          /\ next_cmd = Len(parse_queue) + 1
    /\ pc = "parse" =>
          /\ parse_power_result = "none"
          /\ next_cmd <= Len(parse_queue) + 1
    /\ (pc = "parse" \/ parse_power_result = "True") =>
          /\ \A n \in 1..(next_cmd - 1) :
                HasOutput(parse_queue[n]) =>
                    LET fp == fp_in_of(parse_queue[n])
                        export == [fp_in |-> fp, fp_out |-> fp_out_of(fp)]
                    IN  IF KindOn(disk, fp) = "missing"
                          THEN Logged("warning", "output_file_does_not_exist", fp)
                               /\ export \notin parsed
                        ELSE IF ~ is_profile(fp)
                          THEN Logged("warning", "no_method_to_parse", fp)
                               /\ export \notin parsed
                        ELSE IF KindOn(disk, fp) = "good"
                          THEN export \in parsed
                        ELSE Logged("warning", "error_with_function", fp)
                             /\ export \notin parsed
          /\ \A e \in parsed : KindOn(disk, e.fp_in) = "good"

\* parse_power returned after three profile dumps, the second of which made
\* the parser raise; the first and the third have their exports
C8_Witness ==
    /\ report_power_result = "True"
    /\ parse_power_result = "True"
    /\ \E a, b, c \in 1..Len(parse_queue) :
          /\ a < b /\ b < c
          /\ \A n \in {a, b, c} : HasOutput(parse_queue[n]) /\ is_profile(fp_in_of(parse_queue[n]))
          /\ KindOn(disk, fp_in_of(parse_queue[a])) = "good"
          /\ KindOn(disk, fp_in_of(parse_queue[b])) = "malformed"
          /\ KindOn(disk, fp_in_of(parse_queue[c])) = "good"
          /\ \E e \in parsed : e.fp_in = fp_in_of(parse_queue[a])
          /\ \E e \in parsed : e.fp_in = fp_in_of(parse_queue[c])

(***************************************************************************)
(* parsing.py: the parsers of the report tables.                           *)
(*                                                                         *)
(* A line of a report is the sequence of its tokens, the maximal runs of   *)
(* characters other than white space, each a sequence of characters, and   *)
(* eol, whether white space (the line break that readlines keeps) follows  *)
(* the last token.  Every group of the three patterns is delimited by \s+  *)
(* or by an end of the line and holds no white space, the category of a    *)
(* PPA row excepted, so a group is one token and the PPA category a run of  *)
(* tokens.  A number is held in thousandths.                               *)
(***************************************************************************)
DigitChars == <<"0", "1", "2", "3", "4", "5", "6", "7", "8", "9">>
LowerChars == <<"a", "b", "c", "d", "e", "f", "g", "h", "i", "j", "k", "l", "m", "n", "o", "p", "q", "r", "s", "t", "u", "v", "w", "x", "y", "z">>
UpperChars == <<"A", "B", "C", "D", "E", "F", "G", "H", "I", "J", "K", "L", "M", "N", "O", "P", "Q", "R", "S", "T", "U", "V", "W", "X", "Y", "Z">>
CharsOf(cs) == {cs[k] : k \in 1..Len(cs)}
Letters == CharsOf(LowerChars) \cup CharsOf(UpperChars)

\* [A-Za-z0-9_.\-] of ROW_RE
RowCategoryChars == Letters \cup CharsOf(DigitChars) \cup {"_", ".", "-"}
\* [0-9.eE+-] of the power columns
PowerChars == CharsOf(DigitChars) \cup {".", "e", "E", "+", "-"}
\* [0-9.] of the percentages
PercentChars == CharsOf(DigitChars) \cup {"."}
\* [A-Za-z0-9_.\-/ ] of PPA_ROW_RE, the blank being what joins the tokens
PPACategoryChars == Letters \cup CharsOf(DigitChars) \cup {"_", ".", "-", "/"}

\* tok is one or more characters of S
Plus(tok, S) == tok # <<>> /\ \A k \in 1..Len(tok) : tok[k] \in S
\* tok is zero or more characters of S
Star(tok, S) == \A k \in 1..Len(tok) : tok[k] \in S

\* the place of the first character of S in tok, 0 if there is none
FirstIn(tok, S) ==
    IF \E k \in 1..Len(tok) : tok[k] \in S
      THEN CHOOSE k \in 1..Len(tok) : tok[k] \in S /\ \A m \in 1..(k - 1) : tok[m] \notin S
      ELSE 0

\* str.lower
lower(tok) ==
    [k \in 1..Len(tok) |->
        IF tok[k] \in CharsOf(UpperChars)
          THEN LowerChars[CHOOSE n \in 1..Len(UpperChars) : UpperChars[n] = tok[k]]
          ELSE tok[k]]

RECURSIVE rstrip(_, _)
\* str.rstrip(c)
rstrip(tok, c) ==
    IF tok # <<>> /\ tok[Len(tok)] = c THEN rstrip(SubSeq(tok, 1, Len(tok) - 1), c) ELSE tok

\* str.startswith
startswith(tok, prefix) ==
    Len(tok) >= Len(prefix) /\ SubSeq(tok, 1, Len(prefix)) = prefix

\* the values of the fields of a row: None, a float, or the ValueError
\* float raises
NoneValue == [kind |-> "None", milli |-> 0]
FloatValue(m) == [kind |-> "float", milli |-> m]
ValueError == [kind |-> "ValueError", milli |-> 0]
\* None for a record, and for the instance path
NoneDict == [is_none |-> TRUE]
NonePath == <<>>

RECURSIVE DigitsValue(_)
\* the number a run of digits writes
DigitsValue(ds) ==
    IF ds = <<>> THEN 0
    ELSE 10 * DigitsValue(SubSeq(ds, 1, Len(ds) - 1))
         + (CHOOSE n \in 0..9 : DigitChars[n + 1] = ds[Len(ds)])

RECURSIVE Pow10(_)
Pow10(n) == IF n <= 0 THEN 1 ELSE 10 * Pow10(n - 1)

\* a numeral without its sign, and the sign
Unsigned(tok) == IF tok # <<>> /\ tok[1] \in {"+", "-"} THEN Tail(tok) ELSE tok
SignOf(tok) == IF tok # <<>> /\ tok[1] = "-" THEN 0 - 1 ELSE 1

\* float(s) of a token: sign, digits with at most one point and a digit on
\* one side of it, and an exponent; the value in thousandths, truncated
float(s) ==
    LET e == FirstIn(s, {"e", "E"})
        mant == Unsigned(IF e = 0 THEN s ELSE SubSeq(s, 1, e - 1))
        expo == IF e = 0 THEN <<"0">> ELSE SubSeq(s, e + 1, Len(s))
        dot == FirstIn(mant, {"."})
        ip == IF dot = 0 THEN mant ELSE SubSeq(mant, 1, dot - 1)
        fp == IF dot = 0 THEN <<>> ELSE SubSeq(mant, dot + 1, Len(mant))
        ok == /\ Star(ip, CharsOf(DigitChars))
              /\ Star(fp, CharsOf(DigitChars))
              /\ Len(ip) + Len(fp) >= 1
              /\ Plus(Unsigned(expo), CharsOf(DigitChars))
        shift == 3 - Len(fp) + SignOf(expo) * DigitsValue(Unsigned(expo))
        m == DigitsValue(ip \o fp)
    IN  IF ~ ok THEN ValueError
        ELSE FloatValue(SignOf(s) * (IF shift >= 0 THEN m * Pow10(shift)
                                                   ELSE m \div Pow10(0 - shift)))

\* [0-9.]+%
PercentToken(tok) ==
    /\ Len(tok) >= 2
    /\ tok[Len(tok)] = "%"
    /\ Plus(SubSeq(tok, 1, Len(tok) - 1), PercentChars)

\* the five columns after the name of a power row
PowerColumns(ts) ==
    /\ Len(ts) = 5
    /\ \A k \in 1..4 : Plus(ts[k], PowerChars)
    /\ PercentToken(ts[5])

NoMatch == [matched |-> FALSE]

\* ROW_RE.match(ln): an optional bar, a name and the five columns
ROW_RE(line) ==
    LET ts == IF line.toks # <<>> /\ line.toks[1] \in {<<"|">>} THEN Tail(line.toks)
              ELSE IF line.toks # <<>> /\ line.toks[1][1] = "|"
                THEN <<Tail(line.toks[1])>> \o Tail(line.toks)
              ELSE line.toks
    IN  IF Len(ts) = 6 /\ Plus(ts[1], RowCategoryChars) /\ PowerColumns(Tail(ts))
          THEN [matched |-> TRUE, category |-> ts[1], leakage |-> ts[2],
                internal |-> ts[3], switching |-> ts[4], total |-> ts[5], rowpct |-> ts[6]]
          ELSE NoMatch

\* SUBTOTAL_RE.search(ln): the word Subtotal and the five columns
SUBTOTAL_RE(line) ==
    LET ts == line.toks
    IN  IF Len(ts) = 6 /\ ts[1] = <<"S", "u", "b", "t", "o", "t", "a", "l">> /\ PowerColumns(Tail(ts))
          THEN [matched |-> TRUE, leakage |-> ts[2], internal |-> ts[3],
                switching |-> ts[4], total |-> ts[5], rowpct |-> ts[6]]
          ELSE NoMatch

\* PERCENT_RE.search(ln): the word Percentage and five percentages
PERCENT_RE(line) ==
    LET ts == line.toks
    IN  IF Len(ts) = 6 /\ ts[1] = <<"P", "e", "r", "c", "e", "n", "t", "a", "g", "e">> /\ \A k \in 2..6 : PercentToken(ts[k])
          THEN [matched |-> TRUE, leakage |-> ts[2], internal |-> ts[3],
                switching |-> ts[4], total |-> ts[5], rowpct |-> ts[6]]
          ELSE NoMatch

\* the floats of the five columns of a match; the % is stripped from the
\* columns that stripped says
floats(m, stripped) ==
    LET cols == <<m.leakage, m.internal, m.switching, m.total, m.rowpct>>
    IN  [k \in 1..5 |-> float(IF k \in stripped THEN rstrip(cols[k], "%") ELSE cols[k])]

\* a float raised ValueError while a record was built
Raises(vs) == \E k \in 1..Len(vs) : vs[k].kind = "ValueError"

\* the record built from the floats of a match
numbers(vs) ==
    [leakage |-> vs[1], internal |-> vs[2], switching |-> vs[3], total |-> vs[4],
     row_pct |-> vs[5]]

\* one pass of the loop of parse_table over a line: the rows, the subtotal
\* and the percentage after it, and whether a float raised
parse_table_iter(line, rs, st, pt) ==
    LET keep == [rows |-> rs, subtotal |-> st, percentage |-> pt, raised |-> FALSE]
        row == ROW_RE(line)
        sub == SUBTOTAL_RE(line)
        pct == PERCENT_RE(line)
        vs == IF row.matched THEN floats(row, {5})
              ELSE IF sub.matched THEN floats(sub, {5})
              ELSE IF pct.matched THEN floats(pct, 1..5)
              ELSE <<>>
    IN  IF Raises(vs) THEN [keep EXCEPT !.raised = TRUE]
        ELSE IF row.matched
          THEN [keep EXCEPT !.rows =
                   Append(rs, [category |-> row.category, leakage |-> vs[1],
                               internal |-> vs[2], switching |-> vs[3],
                               total |-> vs[4], row_pct |-> vs[5]])]
        ELSE IF sub.matched THEN [keep EXCEPT !.subtotal = numbers(vs)]
        ELSE IF pct.matched THEN [keep EXCEPT !.percentage = numbers(vs)]
        ELSE keep

\* one line of parse_table
ParseTableLine ==
    /\ parser_pc = "parse_table"
    /\ ln <= Len(lines)
    /\ LET r == parse_table_iter(lines[ln], rows, subtotal, percentage)
       IN  IF r.raised
             THEN /\ parser_pc' = "ValueError"
                  /\ UNCHANGED <<ln, rows, subtotal, percentage>>
             ELSE /\ ln' = ln + 1
                  /\ rows' = r.rows
                  /\ subtotal' = r.subtotal
                  /\ percentage' = r.percentage
                  /\ UNCHANGED parser_pc
    /\ UNCHANGED lines
    /\ UNCHANGED joules_vars
    /\ UNCHANGED main_vars

\* parse_table returns rows, subtotal, percentage
ParseTableReturn ==
    /\ parser_pc = "parse_table"
    /\ ln > Len(lines)
    /\ parser_pc' = "returned"
    /\ UNCHANGED <<lines, ln, rows, subtotal, percentage>>
    /\ UNCHANGED joules_vars
    /\ UNCHANGED main_vars

\* the longest report handed to parse_table
MaxTableLines == 3

\* a category row, a Subtotal line, a Percentage line, a row behind a bar,
\* the header of the table, a rule, and a row whose total is a lone dash
TopLine == [toks |-> <<<<"t", "o", "p">>,
                      <<"1", ".", "0">>,
                      <<"2", ".", "0">>,
                      <<"3", ".", "0">>,
                      <<"6", ".", "0">>,
                      <<"5", "0", ".", "0", "%">>>>, eol |-> TRUE]
SubtotalLine == [toks |-> <<<<"S", "u", "b", "t", "o", "t", "a", "l">>,
                           <<"1", ".", "0">>,
                           <<"2", ".", "0">>,
                           <<"3", ".", "0">>,
                           <<"6", ".", "0">>,
                           <<"1", "0", "0", ".", "0", "%">>>>, eol |-> TRUE]
PercentageLine == [toks |-> <<<<"P", "e", "r", "c", "e", "n", "t", "a", "g", "e">>,
                             <<"1", "6", ".", "7", "%">>,
                             <<"3", "3", ".", "3", "%">>,
                             <<"5", "0", ".", "0", "%">>,
                             <<"1", "0", "0", ".", "0", "%">>,
                             <<"1", "0", "0", ".", "0", "%">>>>, eol |-> TRUE]
TableLines ==
    { TopLine, SubtotalLine, PercentageLine,
      [toks |-> <<<<"|">>,
                <<"m", "e", "m">>,
                <<"0">>,
                <<"1", "e", "3">>,
                <<".", "5">>,
                <<"-", "2">>,
                <<"5", "%">>>>, eol |-> FALSE],
      [toks |-> <<<<"C", "a", "t", "e", "g", "o", "r", "y">>,
                <<"L", "e", "a", "k", "a", "g", "e">>,
                <<"I", "n", "t", "e", "r", "n", "a", "l">>,
                <<"S", "w", "i", "t", "c", "h", "i", "n", "g">>,
                <<"T", "o", "t", "a", "l">>,
                <<"R", "o", "w", "%">>>>, eol |-> TRUE],
      [toks |-> <<<<"-", "-", "-", "-", "-">>>>, eol |-> TRUE],
      [toks |-> <<<<"t", "o", "p">>,
                <<"1", ".", "0">>,
                <<"2", ".", "0">>,
                <<"3", ".", "0">>,
                <<"-">>,
                <<"5", "0", "%">>>>, eol |-> TRUE] }

\* no Joules session runs
NoSession ==
    /\ sim_files = <<>>
    /\ report_configs = <<>>
    /\ all_stim_cmds = <<>>
    /\ output = <<>>
    /\ log = <<>>
    /\ pc = "idle"
    /\ caller = "none"
    /\ i = 1
    /\ all_power_report_cfgs = <<>>
    /\ power_cfgs = NotReturned
    /\ last_alias = NoAlias
    /\ report_power_result = "none"
    /\ disk = <<>>
    /\ next_cmd = 1
    /\ parsed = {}
    /\ parse_power_result = "none"

InitTable ==
    /\ NoSession
    /\ NoMain
    /\ lines \in SeqsUpTo(TableLines, MaxTableLines)
    /\ ln = 1
    /\ rows = <<>>
    /\ subtotal = NoneDict
    /\ percentage = NoneDict
    /\ parser_pc = "parse_table"

NextTable ==
    \/ ParseTableLine
    \/ ParseTableReturn

SpecTable == InitTable /\ [][NextTable]_vars

(***************************************************************************)
(* The PPA table.                                                          *)
(***************************************************************************)
\* NUM: digits, with at most one point that a digit follows, and an exponent
NUM(tok) ==
    LET e == FirstIn(tok, {"e", "E"})
        mant == IF e = 0 THEN tok ELSE SubSeq(tok, 1, e - 1)
        expo == IF e = 0 THEN <<"0">> ELSE SubSeq(tok, e + 1, Len(tok))
        dot == FirstIn(mant, {"."})
    IN  /\ IF dot = 0 THEN Plus(mant, CharsOf(DigitChars))
           ELSE /\ Star(SubSeq(mant, 1, dot - 1), CharsOf(DigitChars))
                /\ Plus(SubSeq(mant, dot + 1, Len(mant)), CharsOf(DigitChars))
        /\ Plus(Unsigned(expo), CharsOf(DigitChars))

\* NA without the bare dash
NA_no_dash(tok) == tok \in {<<"n", "/", "a">>, <<"n", "a">>, <<"N", "/", "A">>, <<"N", "A">>}

\* NA: n/a, na, N/A, NA or a dash
NA(tok) == tok \in {<<"n", "/", "a">>, <<"n", "a">>, <<"N", "/", "A">>, <<"N", "A">>, <<"-">>}

NUM_OR_NA(tok) == NUM(tok) \/ NA(tok)

\* PPA_ROW_RE.match(ln): the shortest run of category tokens that eight
\* fields and white space follow; what is left is the instance path
PPA_ROW_RE(line) ==
    LET ts == line.toks
        fits(k) == /\ \A n \in 1..k : Plus(ts[n], PPACategoryChars)
                   /\ \A n \in (k + 1)..(k + 8) : NUM_OR_NA(ts[n])
                   /\ (k + 8 < Len(ts) \/ line.eol)
        ks == {k \in 1..(Len(ts) - 8) : fits(k)}
    IN  IF ks = {} THEN NoMatch
        ELSE LET k == CHOOSE n \in ks : \A m \in ks : n <= m
             IN  [matched |-> TRUE, category |-> SubSeq(ts, 1, k),
                  bits |-> ts[k + 1], pct_cg |-> ts[k + 2],
                  power_static |-> ts[k + 3], power_dynamic |-> ts[k + 4],
                  timing_delay |-> ts[k + 5], timing_slack |-> ts[k + 6],
                  area_cell |-> ts[k + 7], area_routing |-> ts[k + 8],
                  instance_path |-> SubSeq(ts, k + 9, Len(ts))]

\* _num_or_none that takes a zero for an absent value
num_or_none_falsy(s) ==
    IF s = <<>> \/ lower(s) \in {<<"n", "/", "a">>, <<"n", "a">>, <<"-">>, <<"n", "\\", "a">>}
      THEN NoneValue
    ELSE LET v == float(s)
         IN  IF v.kind = "ValueError" \/ v.milli = 0 THEN NoneValue ELSE v

\* _num_or_none(s) of a group that took part in the match
num_or_none(s) ==
    IF s = <<>> \/ lower(s) \in {<<"n", "/", "a">>, <<"n", "a">>, <<"-">>, <<"n", "\\", "a">>}
      THEN NoneValue
    ELSE LET v == float(s)
         IN  IF v.kind = "ValueError" THEN NoneValue ELSE v

\* set(ln.strip()) <= {"=", "-", " ", "|"} and the box-drawing characters
IsSeparator(line) == \A k \in 1..Len(line.toks) : Star(line.toks[k], {"=", "-", "|"})

\* one pass of the loop of parse_ppa_table: the rows the line adds
parse_ppa_table_iter(line) ==
    IF IsSeparator(line) THEN <<>>
    ELSE LET m == PPA_ROW_RE(line)
         IN  IF ~ m.matched THEN <<>>
             ELSE IF startswith(lower(m.category[1]), <<"c", "a", "t", "e", "g", "o", "r", "y">>) THEN <<>>
             ELSE <<[category |-> m.category,
                     bits |-> num_or_none(m.bits),
                     pct_cg |-> num_or_none(m.pct_cg),
                     power_static |-> num_or_none(m.power_static),
                     power_dynamic |-> num_or_none(m.power_dynamic),
                     timing_delay |-> num_or_none(m.timing_delay),
                     timing_slack |-> num_or_none(m.timing_slack),
                     area_cell |-> num_or_none(m.area_cell),
                     area_routing |-> num_or_none(m.area_routing),
                     instance_path |-> IF m.instance_path = <<>> THEN NonePath
                                       ELSE m.instance_path]>>

\* the text of a written PPA row: its tokens in order
LineOf(w) ==
    IF "toks" \in DOMAIN w THEN w
    ELSE [toks |-> w.category \o w.fields \o w.path, eol |-> w.eol]

\* one line of parse_ppa_table
ParsePPALine ==
    /\ parser_pc = "parse_ppa_table"
    /\ ln <= Len(lines)
    /\ rows' = rows \o parse_ppa_table_iter(LineOf(lines[ln]))
    /\ ln' = ln + 1
    /\ UNCHANGED <<lines, subtotal, percentage, parser_pc>>
    /\ UNCHANGED joules_vars
    /\ UNCHANGED main_vars

\* parse_ppa_table returns rows
ParsePPAReturn ==
    /\ parser_pc = "parse_ppa_table"
    /\ ln > Len(lines)
    /\ parser_pc' = "returned"
    /\ UNCHANGED <<lines, ln, rows, subtotal, percentage>>
    /\ UNCHANGED joules_vars
    /\ UNCHANGED main_vars

\* the longest report handed to parse_ppa_table
MaxPPALines == 2

\* the columns of a PPA row, in the order of the table
PPAFields == <<"bits", "pct_cg", "power_static", "power_dynamic",
               "timing_delay", "timing_slack", "area_cell", "area_routing">>

\* the eight fields of a row with measurements everywhere
Measured == <<<<"3", "2">>, <<"1", "2", ".", "5">>, <<"1", "e", "-", "3">>, <<"0", ".", "2", "5">>,
              <<"1", "0", "0">>, <<".", "5">>, <<"7">>, <<"2", ".", "0">>>>

\* the ways a field reads: not available, or zero
Markers == {<<"n", "/", "a">>, <<"N", "/", "A">>, <<"-">>, <<"0">>}

\* a written row: the tokens of its category, its fields, its instance path,
\* and whether white space ends the line
Written(category, fields, path, eol) ==
    [category |-> category, fields |-> fields, path |-> path, eol |-> eol]

AllDashes == [k \in 1..8 |-> <<"-">>]

\* the lines of the PPA reports: rows with one field not available or zero,
\* with and without an instance path, a row with nothing available, a row
\* cut before its line break, a rule, a header, and a title
PPALines ==
    { Written(<<<<"t", "o", "p">>>>, [Measured EXCEPT ![f] = m], <<>>, TRUE) :
          f \in {1, 4, 8}, m \in Markers }
    \cup { Written(<<<<"c", "l", "o", "c", "k">>, <<"n", "e", "t", "w", "o", "r", "k">>>>, [Measured EXCEPT ![f] = m], <<<<"/", "t", "o", "p", "/", "u", "_", "c", "l", "k">>>>, e) :
               f \in {6}, m \in Markers, e \in BOOLEAN }
    \cup { Written(<<<<"t", "o", "p">>>>, AllDashes, <<>>, TRUE),
           Written(<<<<"t", "o", "p">>>>, [Measured EXCEPT ![8] = <<"n", "/", "a">>], <<>>, FALSE),
           Written(<<<<"t", "o", "p">>>>, [Measured EXCEPT ![8] = <<"0">>], <<>>, FALSE),
           Written(<<<<"-">>>>, AllDashes, <<>>, TRUE),
           Written(<<<<"C", "a", "t", "e", "g", "o", "r", "y", "_", "x">>>>, Measured, <<>>, TRUE),
           Written(<<<<"P", "o", "w", "e", "r">>, <<"U", "n", "i", "t", ":">>>>, <<>>, <<>>, TRUE) }

InitPPA ==
    /\ NoSession
    /\ NoMain
    /\ lines \in SeqsUpTo(PPALines, MaxPPALines)
    /\ ln = 1
    /\ rows = <<>>
    /\ subtotal = NoneDict
    /\ percentage = NoneDict
    /\ parser_pc = "parse_ppa_table"

NextPPA ==
    \/ ParsePPALine
    \/ ParsePPAReturn

SpecPPA == InitPPA /\ [][NextPPA]_vars

(***************************************************************************)
(* C6: for every sequence of lines handed to parse_table, once it has      *)
(* returned, a Subtotal line of the input has made the subtotal result     *)
(* non-null and a Percentage line the percentage result, neither is an     *)
(* element of the rows, and one category row, one Subtotal line and one    *)
(* Percentage line give exactly one row.                                   *)
(***************************************************************************)
C6_SubtotalSeparate ==
    parser_pc = "returned" /\ lines \in Seq(TableLines) =>
        /\ (\E n \in 1..Len(lines) : SUBTOTAL_RE(lines[n]).matched) => subtotal # NoneDict
        /\ (\E n \in 1..Len(lines) : PERCENT_RE(lines[n]).matched) => percentage # NoneDict
        /\ \A n \in 1..Len(rows) : rows[n].category \notin {<<"S", "u", "b", "t", "o", "t", "a", "l">>, <<"P", "e", "r", "c", "e", "n", "t", "a", "g", "e">>}
        /\ lines = <<TopLine, SubtotalLine, PercentageLine>> =>
              /\ Len(rows) = 1
              /\ subtotal # NoneDict
              /\ percentage # NoneDict

(***************************************************************************)
(* C7: a written PPA row that is a row of data -- a category that is a     *)
(* name, eight fields, and an instance path or white space after them --   *)
(* is emitted by parse_ppa_table whatever fields read n/a, N/A or a dash;  *)
(* each such field is None in the emitted row, a field reading 0 is the    *)
(* float zero, which is not None, and a field reading a number is a        *)
(* float.  Lines that are not rows of data add nothing, and nothing is     *)
(* raised.                                                                 *)
(***************************************************************************)
\* the written line is a row of data
DataRow(w) ==
    /\ Len(w.fields) = 8
    /\ \A k \in 1..8 : NUM(w.fields[k]) \/ w.fields[k] \in Markers
    /\ \E k \in 1..Len(w.category) :
          \E c \in 1..Len(w.category[k]) : w.category[k][c] \notin {"=", "-", "|"}
    /\ ~ startswith(lower(w.category[1]), <<"c", "a", "t", "e", "g", "o", "r", "y">>)
    /\ (w.path # <<>> \/ w.eol)

\* the rows of data among the first n lines
DataRowsUpTo(n) == {m \in 1..n : DataRow(lines[m])}

C7_NotAvailable ==
    parser_pc \in {"parse_ppa_table", "returned"} /\ lines \in Seq(PPALines) =>
        /\ Len(rows) = Cardinality(DataRowsUpTo(ln - 1))
        /\ parser_pc = "returned" => ln = Len(lines) + 1
        /\ \A n \in DataRowsUpTo(ln - 1) :
              LET w == lines[n]
                  row == rows[Cardinality(DataRowsUpTo(n))]
              IN  /\ row.category = w.category
                  /\ row.instance_path = w.path
                  /\ \A f \in 1..8 :
                        /\ w.fields[f] \in {<<"n", "/", "a">>, <<"N", "/", "A">>, <<"-">>} =>
                              row[PPAFields[f]] = NoneValue
                        /\ w.fields[f] = <<"0">> => row[PPAFields[f]] = FloatValue(0)
                        /\ NUM(w.fields[f]) => row[PPAFields[f]].kind = "float"
        /\ FloatValue(0) # NoneValue

\* parse_ppa_table returned a row whose bits are not available and a row
\* whose bits are zero
C7_Witness ==
    /\ parser_pc = "returned"
    /\ lines \in Seq(PPALines)
    /\ Len(lines) = 2
    /\ Len(rows) = 2
    /\ \E a, b \in 1..2 :
          /\ lines[a].fields[1] = <<"n", "/", "a">>
          /\ rows[a].bits = NoneValue
          /\ lines[b].fields[1] = <<"0">>
          /\ rows[b].bits = FloatValue(0)

(***************************************************************************)
(* C12: parse_power never changes the stimulus registry: from its call to  *)
(* its return, in a session in which report_power ran before it and in a   *)
(* session in which nothing is registered yet, every step leaves           *)
(* all_stim_cmds as it was when parse_power was called.                    *)
(***************************************************************************)
C12_RegistryNotMutatedByParse ==
    [][(caller = "parse_power" \/ caller' = "parse_power") =>
           all_stim_cmds' = all_stim_cmds]_vars

\* the same, in the sessions in which report_power returned True before
RegistryKeptAfterReport ==
    [][(report_power_result = "True"
        /\ (caller = "parse_power" \/ caller' = "parse_power")) =>
           all_stim_cmds' = all_stim_cmds]_vars

(***************************************************************************)
(* Sessions whose requests differ in their output formats.                 *)
(***************************************************************************)
\* every format but all and profile
SixFormats == {"report", "activity", "ppa", "area", "plot_profile", "write_profile"}

\* the sets of output formats the requests ask for
FormatSets ==
    { {"all"}, SixFormats, {"profile"}, {"plot_profile"}, {"write_profile"},
      {"profile", "plot_profile", "write_profile"}, {"report", "all"},
      {"activity", "ppa"}, {"area", "profile"}, {} }

\* requests with a segmentation field, one with a raw command too, and a
\* plain request without one
FormatReports ==
    { [AutoReport(WaveA) EXCEPT !.interval_size = 10, !.output_formats = fs] :
          fs \in FormatSets }
    \cup { [AutoReport(WaveB) EXCEPT !.num_toggles = 3, !.inst = "u0", !.tcl_cmd = "report_x",
                                     !.tcl_args = "-v", !.output_formats = fs] :
               fs \in {{"all"}, SixFormats} }
    \cup { AutoReport(WaveA) }

InitFormats ==
    /\ NoParser
    /\ sim_files = <<>>
    /\ report_configs \in SeqsUpTo(FormatReports, MaxReports)
    /\ all_stim_cmds = <<>>
    /\ output = <<>>
    /\ log = <<>>
    /\ pc = "idle"
    /\ caller = "none"
    /\ i = 1
    /\ all_power_report_cfgs = <<>>
    /\ power_cfgs = NotReturned
    /\ last_alias = NoAlias
    /\ report_power_result = "none"
    /\ disk = <<>>
    /\ next_cmd = 1
    /\ parsed = {}
    /\ parse_power_result = "none"

SpecFormats == InitFormats /\ [][Next]_vars

(***************************************************************************)
(* C13: all is a superset flag.  For two requests of a batch that have a   *)
(* segmentation field and differ only in asking for {all} and for the six  *)
(* formats report, activity, ppa, area, plot_profile, write_profile, the   *)
(* lists of report commands are equal, in the same order; and for any set  *)
(* of formats the commands are, in the order of the formats, the commands  *)
(* of each kind once: two report_power, two report_activity, report_ppa,   *)
(* report_area, plot_power_profile and write_power_profile (profile gives  *)
(* the last two), however many of the asked formats give a kind.           *)
(***************************************************************************)
\* the command names a set of formats gives, in order, each kind once
HeadsOf(fmts, tcl_cmd) ==
    (IF fmts \cap {"report", "all"} # {} THEN <<"report_power", "report_power">> ELSE <<>>)
    \o (IF fmts \cap {"activity", "all"} # {}
          THEN <<"report_activity", "report_activity">> ELSE <<>>)
    \o (IF fmts \cap {"ppa", "all"} # {} THEN <<"report_ppa">> ELSE <<>>)
    \o (IF fmts \cap {"area", "all"} # {} THEN <<"report_area">> ELSE <<>>)
    \o (IF fmts \cap {"plot_profile", "profile", "all"} # {}
          THEN <<"plot_power_profile">> ELSE <<>>)
    \o (IF fmts \cap {"write_profile", "profile", "all"} # {}
          THEN <<"write_power_profile">> ELSE <<>>)
    \o (IF tcl_cmd # NoneS THEN <<tcl_cmd>> ELSE <<>>)

\* the formats a request asks for, as the user wrote them
AskedFormats(report) ==
    IF report.output_formats = NoneF
      THEN (IF report.tcl_args = NoneS THEN {"report"} ELSE {})
      ELSE report.output_formats

C13_AllIsSuperset ==
    (power_cfgs.is_list /\ caller # "parse_power" /\ parse_power_result = "none") =>
        /\ \A j, k \in Reports :
              LET rj == power_report_configs[j]
                  rk == power_report_configs[k]
              IN  (/\ time_based_analysis(rj)
                   /\ rj.output_formats = {"all"}
                   /\ rk = [rj EXCEPT !.output_formats = SixFormats]) =>
                      power_cfgs.list[j].report_cmds = power_cfgs.list[k].report_cmds
        /\ \A k \in Reports :
              LET cmds == power_cfgs.list[k].report_cmds
                  r == power_report_configs[k]
              IN  [n \in 1..Len(cmds) |-> Text(cmds[n][1])]
                    = HeadsOf(AskedFormats(r), r.tcl_cmd)

\* a batch of a request for {all} and the same request for the six formats
\* was synthesized: eight commands and the raw command each
C13_Witness ==
    /\ power_cfgs.is_list
    /\ Len(power_report_configs) = 2
    /\ power_report_configs[1].output_formats = {"all"}
    /\ power_report_configs[1].tcl_cmd = "report_x"
    /\ power_report_configs[2] = [power_report_configs[1] EXCEPT !.output_formats = SixFormats]
    /\ Len(power_cfgs.list[1].report_cmds) = 9
    /\ power_cfgs.list[2].report_cmds = power_cfgs.list[1].report_cmds

(***************************************************************************)
(* C15: in the script report_power builds from an empty registry, every    *)
(* dump_frame_info command and every report command that names an alias    *)
(* comes after the load command of that alias, every report command that   *)
(* names an alias comes after the compute_power command of that alias,     *)
(* and the load commands come in increasing order of their aliases.        *)
(***************************************************************************)
\* the alias a report command names after -stims, "" if it names none
StimsOf(line) ==
    IF \E n \in 1..(Len(line) - 1) : line[n] = W("-stims")
      THEN Text(line[(CHOOSE n \in 1..(Len(line) - 1) : line[n] = W("-stims")) + 1])
      ELSE ""
\* the number of an alias
AliasNumber(a) == CHOOSE n \in 0..(Len(output) + 1) : a = "stim" \o ToString(n)
LoadBefore(n, a) == \E m \in 1..(n - 1) : IsLoadCmd(output[m]) /\ LoadAlias(output[m]) = a
ComputeBefore(n, a) ==
    \E m \in 1..(n - 1) : IsComputeCmd(output[m]) /\ ComputeAlias(output[m]) = a

C15_CommandOrdering ==
    (caller # "parse_power" /\ parse_power_result = "none") =>
        /\ \A n \in 1..Len(output) :
              /\ IsDumpCmd(output[n]) => LoadBefore(n, DumpAlias(output[n]))
              /\ (output[n] # <<>> /\ StimsOf(output[n]) # "") =>
                    /\ LoadBefore(n, StimsOf(output[n]))
                    /\ ComputeBefore(n, StimsOf(output[n]))
        /\ \A m, n \in 1..Len(output) :
              (m < n /\ IsLoadCmd(output[m]) /\ IsLoadCmd(output[n])) =>
                  AliasNumber(LoadAlias(output[m])) < AliasNumber(LoadAlias(output[n]))

\* a script with the load commands of two aliases and, after the second, a
\* report command that names the first
C15_Witness ==
    /\ report_power_result = "True"
    /\ \E l0, l1, n \in 1..Len(output) :
          /\ l0 < l1 /\ l1 < n
          /\ IsLoadCmd(output[l0]) /\ LoadAlias(output[l0]) = "stim0"
          /\ IsLoadCmd(output[l1]) /\ LoadAlias(output[l1]) = "stim1"
          /\ StimsOf(output[n]) = "stim0"

(***************************************************************************)
(* C16: when configs_to_cmds is called again in the session, by            *)
(* parse_power after report_power wrote the script, it returns a list      *)
(* whose cfgs carry no load and no compute_power command and whose         *)
(* dump_frame_info and report commands are, in order, those of the script  *)
(* (each cfg is one dump_frame_info command and then its report commands,  *)
(* and both name the alias, so this is equality request by request), and   *)
(* the registry is not changed by the second call.                         *)
(***************************************************************************)
IsDumpOrReport(line) ==
    /\ line # <<>>
    /\ ~ IsLoadCmd(line)
    /\ ~ IsComputeCmd(line)
    /\ line \notin {read_db_cmd, proc_cmd}
DumpsAndReports(script) == SelectSeq(script, IsDumpOrReport)

\* configs_to_cmds returned to parse_power after report_power returned True
SecondCallReturned ==
    /\ report_power_result = "True"
    /\ caller = "parse_power"
    /\ power_cfgs.returned

ResynthesisSameCommands ==
    SecondCallReturned =>
        /\ power_cfgs.is_list
        /\ \A k \in 1..Len(power_cfgs.list) :
              /\ power_cfgs.list[k].read_stim_cmd[1] = <<>>
              /\ power_cfgs.list[k].compute_power_cmd = NoCmd
        /\ DumpsAndReports(CfgLines(power_cfgs.list)) = DumpsAndReports(output)

C16_ResynthesisIdempotent ==
    /\ [] ResynthesisSameCommands
    /\ [][(report_power_result = "True" /\ pc = "configs" /\ caller = "parse_power") =>
              all_stim_cmds' = all_stim_cmds]_vars

\* the second call returned for two requests on two stimuli, with a profile
\* dump among the report commands
C16_Witness ==
    /\ SecondCallReturned
    /\ Len(power_cfgs.list) = 2
    /\ Len(all_stim_cmds) = 2
    /\ \E n \in 1..Len(output) : IsProfileCmd(output[n])

(***************************************************************************)
(* C17: every plot_power_profile or write_power_profile command of the     *)
(* script names an alias whose compute_power command has mode time_based   *)
(* and whose load command has a segmentation clause.                       *)
(***************************************************************************)
HasSegClause(line) == \E k \in 1..4 : HasFlag(line, SegFlags[k])

TargetsTimeBased(n) ==
    LET a == StimsOf(output[n])
    IN  /\ \E m \in 1..Len(output) :
              /\ IsComputeCmd(output[m])
              /\ ComputeAlias(output[m]) = a
              /\ ComputeMode(output[m]) = "time_based"
        /\ \E m \in 1..Len(output) :
              /\ IsLoadCmd(output[m])
              /\ LoadAlias(output[m]) = a
              /\ HasSegClause(output[m])

C17_ProfileTargetsTimeBased ==
    report_power_result = "True" =>
        \A n \in 1..Len(output) : IsProfileCmd(output[n]) => TargetsTimeBased(n)

\* a request with a segmentation field that is set and false: 0 or ""
HasFalsySegmentation(report) ==
    \/ report.interval_size = 0
    \/ report.interval_list = ""
    \/ report.num_toggles = 0
    \/ report.frame_count = 0

\* the same, in the batches whose segmentation fields are absent or positive
ProfileTargetsTimeBasedUnlessFalsy ==
    (\A k \in 1..Len(power_report_configs) :
         ~ HasFalsySegmentation(power_report_configs[k])) =>
        C17_ProfileTargetsTimeBased

(***************************************************************************)
(* C18: in a pass of parse_power over a report command, a command without  *)
(* an output token is skipped; for a command with one, the file looked for *)
(* is the path after the token, with .data appended exactly when the       *)
(* command is a write_power_profile command, and the file of any other     *)
(* command is never handed to the profile parser.                          *)
(***************************************************************************)
IsWriteProfileCmd(cmd) == cmd # <<>> /\ cmd[1] = W("write_power_profile")

\* the messages of a pass that did not reach the profile parser
NotParsedMsgs == {"output_file_does_not_exist", "no_method_to_parse"}

\* a pass over cmd looks for the file fp, and hands it to the profile parser
\* only if to_parser
PassLooksFor(cmd, fp, to_parser) ==
    IF ~ HasOutput(cmd)
      THEN log' = log /\ parsed' = parsed
      ELSE /\ Len(log') > Len(log)
           /\ log'[Len(log) + 1].file = fp
           /\ ~ to_parser => /\ parsed' = parsed
                             /\ log'[Len(log) + 1].msg \in NotParsedMsgs

C18_OutputFileLocation ==
    [][(pc = "parse" /\ next_cmd' = next_cmd + 1) =>
           LET cmd == parse_queue[next_cmd]
           IN  PassLooksFor(cmd,
                            IF IsWriteProfileCmd(cmd)
                              THEN Append(fp_in_path(cmd), ".data")
                              ELSE fp_in_path(cmd),
                            IsWriteProfileCmd(cmd))]_vars

\* the same with the commands told apart as the code does, by .profile in
\* the name of the file: the plot_power_profile commands are among them
OutputFileLocationByName ==
    [][(pc = "parse" /\ next_cmd' = next_cmd + 1) =>
           LET cmd == parse_queue[next_cmd]
               named == HasOutput(cmd) /\ is_profile(fp_in_path(cmd))
           IN  /\ PassLooksFor(cmd,
                               IF named THEN Append(fp_in_path(cmd), ".data")
                                        ELSE fp_in_path(cmd),
                               named)
               /\ named <=> IsProfileCmd(cmd)]_vars

(***************************************************************************)
(* The profile parser: interval boundaries of the rows when no companion   *)
(* file exists and only toggle-based segmentation is known.  Sample times  *)
(* are integer nanoseconds; boundaries are held in half nanoseconds, so    *)
(* that the midpoint of two samples is exact.                              *)
(***************************************************************************)
\* the most rows of a profile, and the latest sample time, in nanoseconds
MaxSamples == 3
MaxSampleTime == 4

\* the row of sample k with both boundaries at the sample time
toggle_intervals_at_sample(times, k) ==
    [time |-> times[k], start2 |-> 2 * times[k], end2 |-> 2 * times[k]]

\* the row of sample k: boundaries at the midpoints to the neighbouring
\* samples, the start of the first row at zero, the end of the last row at
\* its own sample time
toggle_intervals(times, k) ==
    [time |-> times[k],
     start2 |-> IF k = 1 THEN 0 ELSE times[k - 1] + times[k],
     end2 |-> IF k = Len(times) THEN 2 * times[k] ELSE times[k] + times[k + 1]]

\* the boundaries of one more row are reconstructed
ProfileRow ==
    /\ parser_pc = "profile_intervals"
    /\ ln <= Len(lines)
    /\ rows' = Append(rows, toggle_intervals(lines, ln))
    /\ ln' = ln + 1
    /\ UNCHANGED <<lines, subtotal, percentage, parser_pc>>
    /\ UNCHANGED joules_vars
    /\ UNCHANGED main_vars

\* every row has its boundaries
ProfileReturn ==
    /\ parser_pc = "profile_intervals"
    /\ ln > Len(lines)
    /\ parser_pc' = "returned"
    /\ UNCHANGED <<lines, ln, rows, subtotal, percentage>>
    /\ UNCHANGED joules_vars
    /\ UNCHANGED main_vars

\* the sample times of a profile dump, in the order of its rows
InitProfile ==
    /\ NoSession
    /\ NoMain
    /\ lines \in SeqsUpTo(0..MaxSampleTime, MaxSamples)
    /\ ln = 1
    /\ rows = <<>>
    /\ subtotal = NoneDict
    /\ percentage = NoneDict
    /\ parser_pc = "profile_intervals"

NextProfile ==
    \/ ProfileRow
    \/ ProfileReturn

SpecProfile == InitProfile /\ [][NextProfile]_vars

(***************************************************************************)
(* C14: for strictly increasing sample times, the first row starts at 0,   *)
(* the last row ends at its sample time, the end of a row and the start of *)
(* the next are both the midpoint of the two sample times; so the          *)
(* intervals are contiguous, do not overlap, and each holds its sample     *)
(* time.                                                                   *)
(***************************************************************************)
StrictlyIncreasing(times) ==
    \A k \in 1..(Len(times) - 1) : times[k] < times[k + 1]

C14_MidpointIntervals ==
    (parser_pc \in {"profile_intervals", "returned"} /\ StrictlyIncreasing(lines)) =>
        /\ \A k \in 1..Len(rows) :
              /\ k = 1 => rows[k].start2 = 0
              /\ k = Len(lines) => rows[k].end2 = 2 * lines[k]
              /\ k < Len(lines) => rows[k].end2 = lines[k] + lines[k + 1]
              /\ k > 1 => rows[k].start2 = lines[k - 1] + lines[k]
              /\ rows[k].start2 <= 2 * lines[k]
              /\ 2 * lines[k] <= rows[k].end2
        /\ \A k \in 1..(Len(rows) - 1) :
              /\ rows[k].end2 = rows[k + 1].start2
              /\ rows[k].start2 < rows[k + 1].start2
              /\ rows[k].end2 < rows[k + 1].end2

\* three rows reconstructed, one midpoint between two nanoseconds
C14_Witness ==
    /\ parser_pc = "returned"
    /\ StrictlyIncreasing(lines)
    /\ Len(rows) = 3
    /\ (lines[1] + lines[2]) % 2 = 1
    /\ lines[1] > 0

(***************************************************************************)
(* parse_hier_power_table.  The metadata patterns are matched on the       *)
(* characters of the line, its tokens joined by one blank.                 *)
(***************************************************************************)
RECURSIVE Join(_)
\* the characters of a line
Join(toks) ==
    IF toks = <<>> THEN <<>>
    ELSE IF Len(toks) = 1 THEN toks[1]
    ELSE toks[1] \o <<" ">> \o Join(Tail(toks))

RECURSIVE lstrip(_)
\* \s* at the head of cs taken away
lstrip(cs) == IF cs # <<>> /\ cs[1] = " " THEN lstrip(Tail(cs)) ELSE cs

\* cs without the prefix it starts with
After(cs, prefix) == SubSeq(cs, Len(prefix) + 1, Len(cs))

PowerUnitChars == <<"P", "o", "w", "e", "r", " ", "U", "n", "i", "t", ":">>
AreaUnitChars == <<"A", "r", "e", "a", " ", "U", "n", "i", "t", ":">>
PDBFrameChars == <<"P", "D", "B", " ", "F", "r", "a", "m", "e">>

\* H_POWER_UNIT_RE.match(ln): the group, <<>> without a match
H_POWER_UNIT_RE(line) ==
    LET cs == Join(line.toks)
        g == IF startswith(cs, PowerUnitChars) THEN lstrip(After(cs, PowerUnitChars)) ELSE <<>>
    IN  IF g # <<>> /\ \A k \in 1..Len(g) : g[k] # " " THEN g ELSE <<>>

\* H_AREA_UNIT_RE.match(ln): the group, <<>> without a match
H_AREA_UNIT_RE(line) ==
    LET cs == Join(line.toks)
    IN  IF startswith(cs, AreaUnitChars) THEN lstrip(After(cs, AreaUnitChars)) ELSE <<>>

\* H_PDB_FRAME_RE.match(ln): the group, <<>> without a match
H_PDB_FRAME_RE(line) ==
    LET cs == Join(line.toks)
        colon == IF startswith(cs, PDBFrameChars) THEN lstrip(After(cs, PDBFrameChars)) ELSE <<>>
    IN  IF colon # <<>> /\ colon[1] = ":" THEN lstrip(Tail(colon)) ELSE <<>>

\* HIER_ROW_RE.match(ln): an optional bar, the cells, their percentage, four
\* power columns, the level, and the instance to the end of the line
HIER_ROW_RE(line) ==
    LET ts == IF line.toks # <<>> /\ line.toks[1] \in {<<"|">>} THEN Tail(line.toks)
              ELSE IF line.toks # <<>> /\ line.toks[1][1] = "|"
                THEN <<Tail(line.toks[1])>> \o Tail(line.toks)
              ELSE line.toks
    IN  IF /\ Len(ts) >= 8
           /\ Plus(ts[1], CharsOf(DigitChars))
           /\ PercentToken(ts[2])
           /\ \A k \in 3..6 : Plus(ts[k], PowerChars)
           /\ Plus(ts[7], CharsOf(DigitChars))
          THEN [matched |-> TRUE, cells |-> ts[1], pct_cells |-> ts[2], leakage |-> ts[3],
                internal |-> ts[4], switching |-> ts[5], total |-> ts[6], lvl |-> ts[7],
                instance |-> SubSeq(ts, 8, Len(ts))]
          ELSE NoMatch

\* s.lower().startswith("cells ") of the stripped line
IsCellsHeader(line) ==
    /\ Len(line.toks) >= 2
    /\ lower(line.toks[1]) = <<"c", "e", "l", "l", "s">>

\* one pass of the loop of parse_hier_power_table over a line: the rows and
\* the metadata after it, and whether a float raised
parse_hier_power_table_iter(line, rs, mt) ==
    LET keep == [rows |-> rs, meta |-> mt, raised |-> FALSE]
        m == HIER_ROW_RE(line)
        vs == IF m.matched
                THEN LET cols == <<m.pct_cells, m.leakage, m.internal, m.switching, m.total>>
                     IN  [k \in 1..5 |-> float(IF k = 1 THEN rstrip(cols[1], "%") ELSE cols[k])]
                ELSE <<>>
    IN  IF H_POWER_UNIT_RE(line) # <<>>
          THEN [keep EXCEPT !.meta.power_unit = H_POWER_UNIT_RE(line)]
        ELSE IF H_AREA_UNIT_RE(line) # <<>>
          THEN [keep EXCEPT !.meta.area_unit = H_AREA_UNIT_RE(line)]
        ELSE IF H_PDB_FRAME_RE(line) # <<>>
          THEN [keep EXCEPT !.meta.pdb_frame = H_PDB_FRAME_RE(line)]
        ELSE IF IsSeparator(line) \/ IsCellsHeader(line) THEN keep
        ELSE IF ~ m.matched THEN keep
        ELSE IF Raises(vs) THEN [keep EXCEPT !.raised = TRUE]
        ELSE [keep EXCEPT !.rows =
                 Append(rs, [cells |-> DigitsValue(m.cells), pct_cells |-> vs[1],
                             leakage |-> vs[2], internal |-> vs[3], switching |-> vs[4],
                             total |-> vs[5], lvl |-> DigitsValue(m.lvl),
                             instance |-> m.instance])]

\* one line of parse_hier_power_table
ParseHierLine ==
    /\ parser_pc = "parse_hier_power_table"
    /\ ln <= Len(lines)
    /\ LET r == parse_hier_power_table_iter(lines[ln], rows, meta)
       IN  IF r.raised
             THEN /\ parser_pc' = "ValueError"
                  /\ UNCHANGED <<ln, rows, meta>>
             ELSE /\ ln' = ln + 1
                  /\ rows' = r.rows
                  /\ meta' = r.meta
                  /\ UNCHANGED parser_pc
    /\ UNCHANGED <<lines, subtotal, percentage>>
    /\ UNCHANGED <<args, main_pc, out_path, called, written>>
    /\ UNCHANGED joules_vars

\* parse_hier_power_table returns rows and meta
ParseHierReturn ==
    /\ parser_pc = "parse_hier_power_table"
    /\ ln > Len(lines)
    /\ parser_pc' = "returned"
    /\ UNCHANGED <<lines, ln, rows, subtotal, percentage>>
    /\ UNCHANGED main_vars
    /\ UNCHANGED joules_vars

(***************************************************************************)
(* main of parsing.py.                                                     *)
(***************************************************************************)
\* sub in cs
contains(cs, sub) ==
    \E k \in 1..(Len(cs) - Len(sub) + 1) : SubSeq(cs, k, k + Len(sub) - 1) = sub

\* is_ppa and is_hier of main
is_ppa(source) == contains(lower(source), <<"p", "p", "a">>)
is_hier(source) == contains(lower(source), <<"h", "i", "e", "r">>)

DEFAULT_OUT ==
    PathStr(TRUE, <<"users", "vihaan1406", "hammer", "hammer", "power", "joules",
                    "output.power.csv">>)
DEFAULT_OUT_PPA ==
    PathStr(TRUE, <<"users", "vihaan1406", "hammer", "hammer", "power", "joules",
                    "output.ppa.csv">>)
DEFAULT_OUT_HIER ==
    PathStr(TRUE, <<"users", "vihaan1406", "hammer", "hammer", "power", "joules",
                    "output.hier.power.csv">>)

\* a part of a path that Path keeps
IsPathPart(part) == part \notin {"", "."}
\* Path(str): empty parts and "." parts are dropped
Path(str) == [abs |-> str.abs, parts |-> SelectSeq(str.parts, IsPathPart)]

\* a str that is true: not None and not ""
Truthy(str) == str.kind = "str" /\ (str.abs \/ str.parts # <<>>)

\* out_path of main
out_path_of(a) ==
    IF Truthy(a.out) THEN Path(a.out)
    ELSE Path(IF is_ppa(a.source) THEN DEFAULT_OUT_PPA
              ELSE IF is_hier(a.source) THEN DEFAULT_OUT_HIER
              ELSE DEFAULT_OUT)

\* the branch of main with "hier" tested before "ppa"
report_kind_hier_first(source) ==
    IF is_hier(source) THEN "hier" ELSE IF is_ppa(source) THEN "ppa" ELSE "flat"

\* the branch of main a source takes
report_kind(source) ==
    IF is_ppa(source) THEN "ppa" ELSE IF is_hier(source) THEN "hier" ELSE "flat"

\* the parser a branch calls
ParserOf(kind) ==
    IF kind = "ppa" THEN "parse_ppa_table"
    ELSE IF kind = "hier" THEN "parse_hier_power_table"
    ELSE "parse_table"

\* main up to the call of the parser: the lines are read, out_path is chosen
\* and the parser of the branch is entered
MainDispatch ==
    /\ main_pc = "start"
    /\ out_path' = out_path_of(args)
    /\ called' = Append(called, ParserOf(report_kind(args.source)))
    /\ parser_pc' = ParserOf(report_kind(args.source))
    /\ main_pc' = "parsing"
    /\ UNCHANGED <<args, written, meta, lines, ln, rows, subtotal, percentage>>
    /\ UNCHANGED joules_vars

\* the parser returned: the branch writes JSON or CSV to out_path and returns
MainWrite ==
    /\ main_pc = "parsing"
    /\ parser_pc = "returned"
    /\ written' = [path |-> out_path,
                   format |-> IF args.json THEN "json" ELSE "csv",
                   of |-> report_kind(args.source)]
    /\ main_pc' = "done"
    /\ UNCHANGED <<args, out_path, called, meta>>
    /\ UNCHANGED <<lines, ln, rows, subtotal, percentage, parser_pc>>
    /\ UNCHANGED joules_vars

\* the parser raised: the exception leaves main and nothing is written
MainRaise ==
    /\ main_pc = "parsing"
    /\ parser_pc = "ValueError"
    /\ main_pc' = "ValueError"
    /\ UNCHANGED <<args, out_path, called, written, meta>>
    /\ UNCHANGED <<lines, ln, rows, subtotal, percentage, parser_pc>>
    /\ UNCHANGED joules_vars

\* the source paths of the runs
Sources ==
    { <<"o", "u", "t", "p", "u", "t", ".", "p", "p", "a", ".", "r", "p", "t">>,
      <<"o", "u", "t", "p", "u", "t", ".", "h", "i", "e", "r", ".", "p", "o", "w", "e", "r", ".", "r", "p", "t">>,
      <<"o", "u", "t", "p", "u", "t", ".", "p", "o", "w", "e", "r", ".", "r", "p", "t">>,
      <<"O", "U", "T", ".", "P", "P", "A", ".", "R", "P", "T">>,
      <<"h", "i", "e", "r", "/", "o", "u", "t", "p", "u", "t", ".", "p", "p", "a", ".", "r", "p", "t">>,
      <<"p", "p", "a", "_", "r", "u", "n", "/", "o", "u", "t", "p", "u", "t", ".", "p", "o", "w", "e", "r", ".", "r", "p", "t">>,
      <<"H", "i", "e", "r", ".", "r", "p", "t">> }

\* the values of --out: absent, empty, relative with an empty part, absolute
Outs ==
    { NoneStr,
      PathStr(FALSE, <<>>),
      PathStr(FALSE, <<"res", "", "x.csv">>),
      PathStr(TRUE, <<"tmp", "out.csv">>) }

PPARowLine ==
    [toks |-> <<<<"r", "e", "g">>>> \o Measured \o <<<<"/", "t", "o", "p">>>>, eol |-> TRUE]
HierPowerUnitLine ==
    [toks |-> <<<<"P", "o", "w", "e", "r">>, <<"U", "n", "i", "t", ":">>, <<"m", "W">>>>, eol |-> TRUE]
HierAreaUnitLine ==
    [toks |-> <<<<"A", "r", "e", "a">>, <<"U", "n", "i", "t", ":">>, <<"U", "m", "^", "2">>>>, eol |-> TRUE]
HierPDBFrameLine ==
    [toks |-> <<<<"P", "D", "B">>, <<"F", "r", "a", "m", "e">>, <<":">>, <<"/", "s", "t", "i", "m", "#", "2", "/", "f", "r", "a", "m", "e", "#", "0">>>>, eol |-> TRUE]
HierHeaderLine ==
    [toks |-> <<<<"C", "e", "l", "l", "s">>, <<"P", "c", "t", "_", "c", "e", "l", "l", "s">>, <<"L", "e", "a", "k", "a", "g", "e">>, <<"I", "n", "t", "e", "r", "n", "a", "l">>, <<"S", "w", "i", "t", "c", "h", "i", "n", "g">>, <<"T", "o", "t", "a", "l">>, <<"L", "v", "l">>, <<"I", "n", "s", "t", "a", "n", "c", "e">>>>, eol |-> TRUE]
HierRowLine ==
    [toks |-> <<<<"3">>, <<"1", "0", "0", ".", "0", "0", "%">>, <<"1", ".", "5", "e", "-", "3">>, <<"0", ".", "2", "5">>, <<"1", ".", "0">>, <<"1", ".", "2", "5">>, <<"0">>, <<"/", "p", "a", "s", "s">>>>, eol |-> TRUE]
HierBadRowLine ==
    [toks |-> <<<<"|", "3">>, <<"1", ".", "2", ".", "3", "%">>, <<"1">>, <<"2">>, <<"3">>, <<"6">>, <<"1">>, <<"/", "p", "a", "s", "s", "/", "u", "0">>>>, eol |-> TRUE]

\* the reports at the source paths
ReportFiles ==
    { <<>>,
      <<TopLine, SubtotalLine>>,
      <<TopLine, [toks |-> <<<<"t", "o", "p">>, <<"1", ".", "0">>, <<"2", ".", "0">>,
                            <<"3", ".", "0">>, <<"-">>, <<"5", "0", "%">>>>, eol |-> TRUE]>>,
      <<PPARowLine>>,
      <<HierPowerUnitLine, HierRowLine>>,
      <<HierAreaUnitLine, HierPDBFrameLine>>,
      <<HierHeaderLine, HierRowLine>>,
      <<HierBadRowLine>> }

InitCLI ==
    /\ NoSession
    /\ args \in [source : Sources, json : BOOLEAN, out : Outs]
    /\ main_pc = "start"
    /\ out_path = [abs |-> FALSE, parts |-> <<>>]
    /\ called = <<>>
    /\ written = NotWritten
    /\ meta = NoMeta
    /\ lines \in ReportFiles
    /\ ln = 1
    /\ rows = <<>>
    /\ subtotal = NoneDict
    /\ percentage = NoneDict
    /\ parser_pc = "idle"

NextCLI ==
    \/ MainDispatch
    \/ ParseTableLine
    \/ ParseTableReturn
    \/ ParsePPALine
    \/ ParsePPAReturn
    \/ ParseHierLine
    \/ ParseHierReturn
    \/ MainWrite
    \/ MainRaise

SpecCLI == InitCLI /\ [][NextCLI]_vars

(***************************************************************************)
(* C11: for a source that main read, exactly one parser is called: the     *)
(* PPA parser when the lower-cased path mentions "ppa", the hierarchical   *)
(* parser when it mentions "hier" and not "ppa", the flat parser           *)
(* otherwise; what main writes is the output of that kind, at the path of  *)
(* --out (a non-empty value) for all three kinds, and at the default path  *)
(* of that kind without it.                                                *)
(***************************************************************************)
Mentions(source, word) ==
    \E k \in 1..Len(source) :
        /\ k + Len(word) - 1 <= Len(source)
        /\ \A n \in 1..Len(word) : lower(source)[k + n - 1] = word[n]

ExpectedKind ==
    IF Mentions(args.source, <<"p", "p", "a">>) THEN "ppa"
    ELSE IF Mentions(args.source, <<"h", "i", "e", "r">>) THEN "hier"
    ELSE "flat"

ExpectedParser ==
    CASE ExpectedKind = "ppa" -> "parse_ppa_table"
      [] ExpectedKind = "hier" -> "parse_hier_power_table"
      [] ExpectedKind = "flat" -> "parse_table"

ExpectedDefault ==
    CASE ExpectedKind = "ppa" -> DEFAULT_OUT_PPA
      [] ExpectedKind = "hier" -> DEFAULT_OUT_HIER
      [] ExpectedKind = "flat" -> DEFAULT_OUT

\* --out was given a path
OverrideGiven == args.out.kind = "str" /\ args.out # PathStr(FALSE, <<>>)

C11_ParserDispatch ==
    /\ main_pc = "start" => called = <<>> /\ written = NotWritten
    /\ main_pc \in {"parsing", "done", "ValueError"} =>
          /\ called = <<ExpectedParser>>
          /\ parser_pc \in {ExpectedParser, "returned", "ValueError"}
    /\ main_pc \in {"parsing", "ValueError"} => written = NotWritten
    /\ main_pc = "done" =>
          /\ written.of = ExpectedKind
          /\ written.format = (IF args.json THEN "json" ELSE "csv")
          /\ written.path = (IF OverrideGiven THEN Path(args.out) ELSE Path(ExpectedDefault))

\* a PPA report whose path mentions both words was parsed into a row and
\* written to the default path of PPA reports
C11_Witness ==
    /\ main_pc = "done"
    /\ Mentions(args.source, <<"p", "p", "a">>)
    /\ Mentions(args.source, <<"h", "i", "e", "r">>)
    /\ ~ OverrideGiven
    /\ Len(rows) = 1
    /\ written.path = Path(DEFAULT_OUT_PPA)

\* a hierarchical report was parsed into a row and its power unit, and
\* written to the path of --out
HierWritten ==
    /\ main_pc = "done"
    /\ called = <<"parse_hier_power_table">>
    /\ Len(rows) = 1
    /\ meta.power_unit = <<"m", "W">>
    /\ OverrideGiven
    /\ written.path = [abs |-> FALSE, parts |-> <<"res", "x.csv">>]

====
